---- MODULE Spec2Model ----
(***************************************************************************)
(* A model of the personal-assistant web client: the retrieval service     *)
(* (SupabaseRAGService, and the older browser-only RAGService with its     *)
(* BrowserVectorStore) and the page views that call the hosted database.   *)
(*                                                                         *)
(* Numbers.  JavaScript numbers are IEEE doubles; the model computes with  *)
(* integers.  Text is a sequence of pieces of a string, a piece being one   *)
(* character or a longer literal of the program.  The 32-bit hash is       *)
(* kept exactly (as two 16-bit halves, so that no intermediate value       *)
(* leaves the integers the checker can hold).  Math.sin and Math.cos are   *)
(* computed in fixed point (Bhaskara's rational approximation, two decimal *)
(* digits), so an embedding component is an integer in -10..10 standing    *)
(* for a real in -1..1.  A similarity score is kept as an exact value      *)
(* sgn * sqrt(num / den), or NaN, and scores are compared exactly.         *)
(***************************************************************************)
EXTENDS Integers, Sequences, FiniteSets, TLC

(***************************************************************************)
(* Program constants and bounds                                            *)
(***************************************************************************)
\* Array.from({ length: 384 }, ...)
EmbeddingDim == 384
\* searchDocuments(query, topK = 5)
DefaultTopK == 5
\* sources.slice(0, 3)
ContextDocs == 3
\* 2 * pi in millionths of a radian, the period of Math.sin and Math.cos
TwoPiMicro == 6283185
\* pi in thousandths of a radian
PiMilli == 3142
\* fixed-point scale of the modelled sine and cosine
TrigScale == 100
\* two to the sixteenth: one half of a 32-bit word
Half16 == 65536

\* largest dimension of the hand-made vectors given to cosineSimilarity
MaxDim == 2
\* largest absolute component of a hand-made vector
MaxComp == 1

(***************************************************************************)
(* Text: a sequence of pieces, each one character or one longer literal    *)
(***************************************************************************)
EmptyText == << >>

TextCat == <<"c", "a", "t">>

TextDog == <<"d", "o", "g">>

TextTac == <<"t", "a", "c">>

\* a non-empty text whose 32-bit hash wraps around to 0
TextZeroHash == <<"f", "5", "a", "5", "a", "6", "0", "8">>

\* text.charCodeAt(i) for the characters of the modelled texts
CharCodes ==
    ("a" :> 97) @@ ("c" :> 99) @@ ("d" :> 100) @@ ("f" :> 102) @@
    ("g" :> 103) @@ ("o" :> 111) @@ ("t" :> 116) @@
    ("0" :> 48) @@ ("5" :> 53) @@ ("6" :> 54) @@ ("8" :> 56)

CharCodeAt(text, i) == CharCodes[text[i]]

Texts == {EmptyText, TextCat, TextDog, TextTac, TextZeroHash}

(***************************************************************************)
(* Integer helpers                                                         *)
(***************************************************************************)
Abs(x) == IF x < 0 THEN -x ELSE x

Sign(x) == IF x < 0 THEN -1 ELSE IF x > 0 THEN 1 ELSE 0

Min(a, b) == IF a < b THEN a ELSE b

\* division that truncates toward zero
TruncDiv(a, b) == Sign(a) * Sign(b) * (Abs(a) \div Abs(b))

RECURSIVE Gcd(_, _)
Gcd(a, b) == IF b = 0 THEN a ELSE Gcd(b, a % b)

\* a/b < c/d for a, c >= 0 and b, d > 0, by continued-fraction expansion
RECURSIVE FracLess(_, _, _, _)
FracLess(a, b, c, d) ==
    LET qa == a \div b
        qc == c \div d
        ra == a % b
        rc == c % d
    IN  IF qa # qc THEN qa < qc
        ELSE IF rc = 0 THEN FALSE
        ELSE IF ra = 0 THEN TRUE
        ELSE FracLess(d, rc, b, ra)

(***************************************************************************)
(* simpleHash: hash = ((hash << 5) - hash) + char; hash = hash & hash      *)
(* A 32-bit word is [hi, lo], two 16-bit halves.                           *)
(***************************************************************************)
\* one round of the loop: (31 * hash + char) mod 2^32
HashStep(h, char) ==
    LET lo31 == 31 * h.lo + char
        hi31 == 31 * h.hi + (lo31 \div Half16)
    IN  [hi |-> hi31 % Half16, lo |-> lo31 % Half16]

RECURSIVE HashLoop(_, _, _)
HashLoop(text, i, h) ==
    IF i > Len(text) THEN h
    ELSE HashLoop(text, i + 1, HashStep(h, CharCodeAt(text, i)))

\* the word read as a signed 32-bit integer is negative
IsNegative32(h) == h.hi >= (Half16 \div 2)

\* Math.abs of the signed reading, again as two halves (2^31 fits)
Abs32(h) ==
    IF IsNegative32(h)
    THEN [hi |-> (Half16 - 1 - h.hi) + (IF h.lo = 0 THEN 1 ELSE 0),
          lo |-> (Half16 - h.lo) % Half16]
    ELSE h

\* Math.abs(hash) as two halves; simpleHash returns it divided by 1000000,
\* which makes it an angle in millionths of a radian
simpleHash(text) == Abs32(HashLoop(text, 1, [hi |-> 0, lo |-> 0]))

(***************************************************************************)
(* Math.sin and Math.cos in fixed point                                    *)
(***************************************************************************)
\* the angle hash * k, in millionths of a radian, reduced modulo 2 pi
HashAngle(h) ==
    (((((h.hi * 256) % TwoPiMicro) * 256) % TwoPiMicro) + h.lo) % TwoPiMicro

MulAngle(k, a) ==
    ((((k * (a \div 4)) % TwoPiMicro) * 4) + (k * (a % 4))) % TwoPiMicro

\* sine of x thousandths of a radian, 0 <= x <= pi, times TrigScale
SinHalfTurn(x) ==
    LET p == x * (PiMilli - x)
    IN  (4 * p * TrigScale) \div (((5 * PiMilli * PiMilli) \div 4) - p)

\* Math.sin of theta millionths of a radian (0 <= theta < 2 pi), times TrigScale
MathSin(theta) ==
    LET half == TwoPiMicro \div 2
    IN  IF theta < half
        THEN SinHalfTurn(Min(theta \div 1000, PiMilli))
        ELSE -SinHalfTurn(Min((theta - half) \div 1000, PiMilli))

\* Math.cos(theta) = sin(theta + pi / 2)
MathCos(theta) == MathSin((theta + (TwoPiMicro \div 4)) % TwoPiMicro)

(***************************************************************************)
(* generateEmbedding                                                       *)
(***************************************************************************)
\* Math.sin(hash * (i + 1)) * Math.cos(hash * (i + 2)), i counted from 0
EmbeddingComponent(angle, i) ==
    TruncDiv(MathSin(MulAngle(i + 1, angle)) * MathCos(MulAngle(i + 2, angle)),
             TrigScale * (TrigScale \div 10))

\* the try branch; simpleHash cannot throw on a string, so the catch branch
\* (a random vector) is never taken
\* Array.from({ length }, (_, i) => ...) for the indices lo..hi, built by halves
RECURSIVE ArrayFrom(_, _, _)
ArrayFrom(angle, lo, hi) ==
    IF lo > hi THEN << >>
    ELSE IF lo = hi THEN <<EmbeddingComponent(angle, lo)>>
    ELSE LET mid == (lo + hi) \div 2
         IN  ArrayFrom(angle, lo, mid) \o ArrayFrom(angle, mid + 1, hi)

\* the embedding with one component per character of the text
generateEmbeddingPerChar(text) ==
    ArrayFrom(HashAngle(simpleHash(text)), 0, Len(text) - 1)

generateEmbedding(text) ==
    ArrayFrom(HashAngle(simpleHash(text)), 0, EmbeddingDim - 1)

(***************************************************************************)
(* Similarity scores                                                       *)
(***************************************************************************)
\* 0 / 0
NaN == [nan |-> TRUE, sgn |-> 0, num |-> 0, den |-> 1]

\* dot / (sqrt(magA2) * sqrt(magB2)), kept as sgn * sqrt(num / den) in lowest terms
Quotient(dot, magA2, magB2) ==
    IF magA2 * magB2 = 0
    THEN NaN  \* a zero vector makes the dot product 0 as well: 0 / 0
    ELSE LET g == Gcd(dot * dot, magA2 * magB2)
         IN  [nan |-> FALSE, sgn |-> Sign(dot),
              num |-> (dot * dot) \div g, den |-> (magA2 * magB2) \div g]

\* the number 0
Zero == [nan |-> FALSE, sgn |-> 0, num |-> 0, den |-> 1]

\* x < y on numbers that are not NaN
NumLess(x, y) ==
    IF x.sgn # y.sgn THEN x.sgn < y.sgn
    ELSE IF x.sgn = 1 THEN FracLess(x.num, x.den, y.num, y.den)
    ELSE IF x.sgn = -1 THEN FracLess(y.num, y.den, x.num, x.den)
    ELSE FALSE

\* the JavaScript comparisons: every comparison with NaN is false
Less(x, y) == ~x.nan /\ ~y.nan /\ NumLess(x, y)

Geq(x, y) == ~x.nan /\ ~y.nan /\ ~NumLess(x, y)

(***************************************************************************)
(* cosineSimilarity                                                        *)
(***************************************************************************)
\* The sums are taken by halves (integer addition is associative), which keeps
\* the evaluation shallow for 384 components.
\* a.reduce((sum, val, i) => sum + val * (b[i] || 0), 0), over indices lo..hi
RECURSIVE DotRange(_, _, _, _)
DotRange(a, b, lo, hi) ==
    IF lo > hi THEN 0
    ELSE IF lo = hi THEN a[lo] * (IF lo <= Len(b) THEN b[lo] ELSE 0)
    ELSE LET mid == (lo + hi) \div 2
         IN  DotRange(a, b, lo, mid) + DotRange(a, b, mid + 1, hi)

DotProduct(a, b) == DotRange(a, b, 1, Len(a))

\* a.reduce((sum, val) => sum + val * val, 0): the square of the magnitude
SumSquares(a) == DotRange(a, a, 1, Len(a))

\* cosineSimilarity with magnitudeA used for both magnitudes
cosineSimilarityOneMagnitude(a, b) ==
    IF Len(a) = 0 \/ Len(b) = 0 THEN Zero
    ELSE Quotient(DotProduct(a, b), SumSquares(a), SumSquares(a))

\* SupabaseRAGService.cosineSimilarity
cosineSimilarity(a, b) ==
    IF Len(a) = 0 \/ Len(b) = 0 THEN Zero
    ELSE Quotient(DotProduct(a, b), SumSquares(a), SumSquares(b))

\* BrowserVectorStore.cosineSimilarity: no guard on empty vectors, and
\* val * b[i] is NaN where b has no component i
BrowserCosineSimilarity(a, b) ==
    IF Len(b) < Len(a) THEN NaN
    ELSE Quotient(DotProduct(a, b), SumSquares(a), SumSquares(b))

(***************************************************************************)
(* Tables of the two functions over the modelled texts, computed once: the *)
(* operations below look a value up instead of computing it at every step. *)
(***************************************************************************)
RECURSIVE EmbeddingTableOver(_)
EmbeddingTableOver(texts) ==
    IF texts = {} THEN << >>
    ELSE LET t == CHOOSE x \in texts : TRUE
         IN  (t :> generateEmbedding(t)) @@ EmbeddingTableOver(texts \ {t})

EmbeddingTable == EmbeddingTableOver(Texts)

\* await this.generateEmbedding(text)
EmbeddingOf(text) == EmbeddingTable[text]

\* the embeddings a row can hold: one of a text, or none (read as [])
RowEmbeddings == {EmbeddingTable[t] : t \in Texts} \cup {<< >>}

RECURSIVE CosineTableOver(_)
CosineTableOver(pairs) ==
    IF pairs = {} THEN << >>
    ELSE LET p == CHOOSE x \in pairs : TRUE
         IN  (p :> cosineSimilarity(p[1], p[2])) @@ CosineTableOver(pairs \ {p})

CosineTable == CosineTableOver(RowEmbeddings \X RowEmbeddings)

\* this.cosineSimilarity(a, b)
CosineOf(a, b) == CosineTable[<<a, b>>]

(***************************************************************************)
(* RAGService (src/lib/rag-service.ts): the same hash and embedding, in    *)
(* the older browser-only service                                          *)
(***************************************************************************)
RagSimpleHash(text) == Abs32(HashLoop(text, 1, [hi |-> 0, lo |-> 0]))

\* the embedding with the cosine taken at index i + 1 instead of i + 2
RagGenerateEmbeddingSameIndex(text) ==
    ArrayFrom(HashAngle(RagSimpleHash(text)), 1, EmbeddingDim)

RagGenerateEmbedding(text) ==
    ArrayFrom(HashAngle(RagSimpleHash(text)), 0, EmbeddingDim - 1)

(***************************************************************************)
(* State                                                                   *)
(***************************************************************************)
VARIABLES
    cosIn,      \* the two vectors handed to cosineSimilarity
    cosOut,     \* what the calls returned (svc is "none" before the calls)
    embLog,     \* the generateEmbedding calls made so far, oldest first
    documents,  \* the documents table, rows in insertion order
    clock,      \* source of fresh row ids and timestamps (gen_random_uuid, NOW)
    search,     \* the searchDocuments call that has just returned, if any
    lastCall,   \* the service call that has just returned: what it was and its result
    genIn,      \* what the language model does when generateResponse calls it
    genOut,     \* how the generateResponse calls settled (svc is "none" before)
    chat_messages,  \* the chat_messages table, rows in insertion order
    ragDocuments,   \* the array BrowserVectorStore keeps under 'rag_documents'
    pq,         \* the processQuery call in progress: its position and locals
    todos,      \* the todos table
    notes,      \* the notes table
    rowIds,     \* the next fresh id of todos and of notes
    page,       \* the page view that is mounted
    view,       \* the arrays the mounted page holds in its React state
    pendingFetch,   \* fetches of the mounted page requested and not yet ended
    handled,    \* what the page handler that has just run did
    form,       \* the input fields and flags the mounted page holds in its state
    localStorage,   \* the item 'rag_documents' of the browser's localStorage
    storeLog,   \* the BrowserVectorStore.store calls that resolved, oldest first
    ragSearch,  \* the BrowserVectorStore.search call that has just returned
    shared,     \* the row two sessions edit, as the database holds it
    cached,     \* each session's copy of the row in its React state
    inflight,   \* each session's update request the database has yet to apply
    applied,    \* the update requests the database applied, oldest first
    storage,    \* the objects of the storage bucket 'documents', oldest first
    upload,     \* the handleFileUpload call in progress: position and locals
    events,     \* the events table
    dashboard,  \* what the Dashboard page holds in its React state
    speech,     \* the speech recognition of the Upload page and its session
    chat,       \* what the Chat page holds in its React state, and its calls
    adds        \* the addTodo calls of the Todo page awaiting their insert

fnVars == <<cosIn, cosOut>>
embVars == <<embLog>>
docVars == <<documents, clock>>
searchVars == <<search, lastCall>>
genVars == <<genIn, genOut>>
queryVars == <<chat_messages, ragDocuments, pq>>
pageVars == <<todos, notes, rowIds, page, view, pendingFetch, handled, form>>
storeVars == <<localStorage, storeLog, ragSearch>>
sessionVars == <<shared, cached, inflight, applied>>
uploadVars == <<storage, upload>>
dashVars == <<events, dashboard>>
moreVars == <<speech, chat, adds>>
extVars == <<storeVars, sessionVars, uploadVars, dashVars, moreVars>>
vars == <<cosIn, cosOut, embLog, documents, clock, search, lastCall,
          genIn, genOut, chat_messages, ragDocuments, pq,
          todos, notes, rowIds, page, view, pendingFetch, handled, form,
          localStorage, storeLog, ragSearch, shared, cached, inflight, applied,
          storage, upload, events, dashboard, speech, chat, adds>>

\* number of generateEmbedding calls followed
MaxCalls == 2

Services == {"supabase", "browser"}

(***************************************************************************)
(* cosineSimilarity as a pure function: the inputs are drawn in Init       *)
(***************************************************************************)
\* every vector of dimension 0..MaxDim with components in -MaxComp..MaxComp
HandVectors == UNION {[1..n -> (-MaxComp)..MaxComp] : n \in 0..MaxDim}

\* the vectors generateEmbedding produces for the modelled texts
TextVectors == {generateEmbedding(t) : t \in Texts}

CosineInputs == (HandVectors \X HandVectors) \cup (TextVectors \X TextVectors)

NoCosOut == [svc |-> "none", ab |-> Zero, ba |-> Zero, aa |-> Zero]

FnIdle == cosIn = <<<< >>, << >>>> /\ cosOut = NoCosOut

EmbIdle == embLog = << >>

\* no searchDocuments call has just returned
NoSearch ==
    [pc |-> "idle", query |-> EmptyText, topK |-> 0, fetchOk |-> FALSE,
     queryEmbedding |-> << >>, fetched |-> << >>, scored |-> << >>,
     results |-> << >>]

NoCall == [op |-> "none", ok |-> FALSE, id |-> 0]

DocsIdle == documents = << >> /\ clock = 1

SearchIdle == search = NoSearch /\ lastCall = NoCall

\* the language model answers with a text, or the call throws a value
NoOutcome == [kind |-> "none", isError |-> FALSE, message |-> EmptyText]

NoSettled == [rejected |-> FALSE, value |-> EmptyText]

NoGenOut == [svc |-> "none", settled |-> NoSettled]

GenIdle == genIn = NoOutcome /\ genOut = NoGenOut

\* no processQuery call has started
NoQuery ==
    [pc |-> "idle", svc |-> "none", query |-> EmptyText, sources |-> << >>,
     context |-> EmptyText, outcome |-> NoOutcome, response |-> EmptyText,
     returned |-> << >>,
     calls |-> [saveUser |-> 0, search |-> 0, llm |-> 0, saveAssistant |-> 0]]

QueryIdle == chat_messages = << >> /\ ragDocuments = << >> /\ pq = NoQuery

NoToast == [title |-> "", variant |-> "none"]

\* nothing has been handled yet
NoHandled ==
    [op |-> "none", kind |-> "none", id |-> 0, failed |-> FALSE,
     toast |-> NoToast, logged |-> FALSE]

EmptyView == [todos |-> << >>, notes |-> << >>, documents |-> << >>]

\* the fields are empty and nothing is being saved
NoForm ==
    [newTodo |-> "", documentTitle |-> "", textInput |-> EmptyText,
     isSavingText |-> FALSE, savePc |-> "idle",
     saving |-> [title |-> "", content |-> EmptyText]]

PagesIdle ==
    /\ todos = << >> /\ notes = << >>
    /\ rowIds = [todos |-> 1, notes |-> 1]
    /\ page = "none" /\ view = EmptyView /\ pendingFetch = 0
    /\ handled = NoHandled /\ form = NoForm

\* localStorage.getItem('rag_documents') gives null
NoStored == [present |-> FALSE, items |-> << >>]

NoRagSearch == [pc |-> "idle", topK |-> 0, results |-> << >>]

StoreIdle == localStorage = NoStored /\ storeLog = << >> /\ ragSearch = NoRagSearch

SessionsIdle ==
    shared = << >> /\ cached = << >> /\ inflight = << >> /\ applied = << >>

\* no handleFileUpload call has started
NoUpload ==
    [pc |-> "idle", files |-> << >>, i |-> 0, filePath |-> "null",
     content |-> EmptyText, isUploading |-> FALSE, uploadedFiles |-> << >>,
     attempts |-> << >>, toasts |-> << >>]

UploadIdle == storage = << >> /\ upload = NoUpload

NoDashboard ==
    [loaded |-> FALSE, todosOk |-> FALSE, eventsOk |-> FALSE, totalTodos |-> 0,
     upcomingEvents |-> 0, recentActivities |-> << >>]

DashIdle == events = << >> /\ dashboard = NoDashboard

\* no recognition session has started
NoSpeech ==
    [supported |-> FALSE, isRecording |-> FALSE, pc |-> "idle",
     said |-> EmptyText, before |-> EmptyText, heard |-> << >>,
     gotFinal |-> FALSE, final |-> EmptyText, typed |-> FALSE, sessions |-> 0]

\* the Chat page has not been mounted
NoChat ==
    [isLoadingHistory |-> TRUE, isLoading |-> FALSE, input |-> << >>,
     messages |-> << >>, calls |-> << >>, sends |-> 0, lost |-> FALSE]

\* no addTodo call is awaiting its insert
NoAdds == [isLoading |-> FALSE, calls |-> << >>, typed |-> 0, made |-> << >>]

MoreIdle == speech = NoSpeech /\ chat = NoChat /\ adds = NoAdds

ExtIdle == StoreIdle /\ SessionsIdle /\ UploadIdle /\ DashIdle /\ MoreIdle

InitCosine ==
    /\ cosIn \in CosineInputs
    /\ cosOut = NoCosOut
    /\ EmbIdle /\ DocsIdle /\ SearchIdle /\ GenIdle /\ QueryIdle
    /\ PagesIdle /\ ExtIdle

\* cosineSimilarity(a, b), (b, a) and (a, a) in one of the two services
CallCosineSimilarity(svc) ==
    /\ cosOut.svc = "none"
    /\ LET a == cosIn[1]
           b == cosIn[2]
       IN  cosOut' =
             IF svc = "supabase"
             THEN [svc |-> svc, ab |-> cosineSimilarity(a, b),
                   ba |-> cosineSimilarity(b, a), aa |-> cosineSimilarity(a, a)]
             ELSE [svc |-> svc, ab |-> BrowserCosineSimilarity(a, b),
                   ba |-> BrowserCosineSimilarity(b, a),
                   aa |-> BrowserCosineSimilarity(a, a)]
    /\ UNCHANGED cosIn

NextCosine ==
    \E svc \in Services :
        /\ CallCosineSimilarity(svc)
        /\ UNCHANGED <<embVars, docVars, searchVars, genVars, queryVars, pageVars, extVars>>

SpecCosine == InitCosine /\ [][NextCosine]_vars

(***************************************************************************)
(* generateEmbedding, called any number of times in either service         *)
(***************************************************************************)
InitEmbed ==
    /\ FnIdle /\ EmbIdle /\ DocsIdle /\ SearchIdle /\ GenIdle /\ QueryIdle
    /\ PagesIdle /\ ExtIdle

\* SupabaseRAGService.generateEmbedding(text)
SupabaseGenerateEmbeddingCall(text) ==
    /\ Len(embLog) < MaxCalls
    /\ embLog' = Append(embLog, [svc |-> "supabase", text |-> text,
                                 hash |-> simpleHash(text),
                                 embedding |-> generateEmbedding(text)])

\* RAGService.generateEmbedding(text)
RagGenerateEmbeddingCall(text) ==
    /\ Len(embLog) < MaxCalls
    /\ embLog' = Append(embLog, [svc |-> "browser", text |-> text,
                                 hash |-> RagSimpleHash(text),
                                 embedding |-> RagGenerateEmbedding(text)])

NextEmbed ==
    \/ \E text \in Texts :
          /\ SupabaseGenerateEmbeddingCall(text)
          /\ UNCHANGED <<fnVars, docVars, searchVars, genVars, queryVars,
                       pageVars, extVars>>
    \/ \E text \in Texts :
          /\ RagGenerateEmbeddingCall(text)
          /\ UNCHANGED <<fnVars, docVars, searchVars, genVars, queryVars,
                       pageVars, extVars>>

SpecEmbed == InitEmbed /\ [][NextEmbed]_vars

(***************************************************************************)
(* Array.prototype.sort and slice                                          *)
(***************************************************************************)
\* the comparator (a, b) => b.score - a.score is negative: a goes before b.
\* When either score is NaN the difference is NaN, which sort reads as 0.
GoesBefore(a, b) == Less(b.score, a.score)

\* Where a linear insertion puts x into s: it walks from the right end past
\* every element x goes before and stops at the first it does not.
LinearInsertAt(s, x) ==
    LET stop == {i \in DOMAIN s : ~GoesBefore(x, s[i])}
    IN  IF stop = {} THEN 1
        ELSE 1 + (CHOOSE i \in stop : \A j \in stop : j <= i)

\* Where a binary insertion puts x into s: the search over the 0-based range
\* left..right-1 goes left when x goes before the middle element, otherwise
\* right (a NaN from the comparator counts as 0).
RECURSIVE BinaryInsertAt(_, _, _, _)
BinaryInsertAt(s, x, left, right) ==
    IF left >= right THEN left + 1
    ELSE LET mid == left + ((right - left) \div 2)
         IN  IF GoesBefore(x, s[mid + 1])
             THEN BinaryInsertAt(s, x, left, mid)
             ELSE BinaryInsertAt(s, x, mid + 1, right)

InsertSorted(s, x, binary) ==
    LET at == IF binary THEN BinaryInsertAt(s, x, 0, Len(s))
              ELSE LinearInsertAt(s, x)
    IN  SubSeq(s, 1, at - 1) \o <<x>> \o SubSeq(s, at, Len(s))

RECURSIVE InsertionSort(_, _, _)
InsertionSort(arr, n, binary) ==
    IF n = 0 THEN << >>
    ELSE InsertSorted(InsertionSort(arr, n - 1, binary), arr[n], binary)

\* What arr.sort(comparator) may leave in the array.  Scores that are all
\* numbers give the one stable order; with a NaN score the comparator is not
\* a consistent comparison and the order is implementation-defined: the
\* outcomes are those of the engines' insertion sorts for short arrays.
SortOutcomes(arr) ==
    {InsertionSort(arr, Len(arr), binary) : binary \in BOOLEAN}

\* arr.slice(0, k) for k >= 0
Slice(arr, k) == SubSeq(arr, 1, Min(k, Len(arr)))

(***************************************************************************)
(* SupabaseRAGService: storeDocument, deleteDocument, searchDocuments      *)
(***************************************************************************)
\* most rows ever inserted into the documents table
MaxDocs == 3

\* the topK arguments tried besides the default
MaxTopK == 2

Titles == {"doc"}

\* contents stored as documents: among them the empty text
DocTexts == {EmptyText, TextCat, TextDog}

TopKs == 0..MaxTopK \cup {DefaultTopK}

\* the row the insert of storeDocument adds
NewDocument(document, embedding) ==
    [id |-> clock, title |-> document.title, content |-> document.content,
     file_path |-> document.file_path, embedding |-> embedding,
     upload_date |-> clock]

\* storeDocument(document): embed the content, insert the row; false when the
\* insert fails.  remoteOk is whether the database call succeeds.
StoreDocument(document, remoteOk) ==
    /\ clock <= MaxDocs
    /\ LET embedding == EmbeddingOf(document.content)
       IN  /\ documents' = IF remoteOk
                           THEN Append(documents, NewDocument(document, embedding))
                           ELSE documents
           /\ clock' = IF remoteOk THEN clock + 1 ELSE clock
           /\ lastCall' = [op |-> "storeDocument", ok |-> remoteOk,
                           id |-> IF remoteOk THEN clock ELSE 0]
    /\ search' = NoSearch

\* a delete that keeps the named row and removes the others
DeleteNeq(rows, id) == SelectSeq(rows, LAMBDA r : r.id = id)

\* .delete().eq('id', id): the rows that stay
DeleteEq(rows, id) == SelectSeq(rows, LAMBDA r : r.id # id)

\* deleteDocument(id): false when the delete fails
DeleteDocument(id, remoteOk) ==
    /\ documents' = IF remoteOk THEN DeleteEq(documents, id) ELSE documents
    /\ lastCall' = [op |-> "deleteDocument", ok |-> remoteOk, id |-> id]
    /\ search' = NoSearch
    /\ UNCHANGED clock

\* documents.map(doc => ({content, score, metadata})) of searchDocuments;
\* doc.embedding || [] reads a missing embedding as the empty array
ScoreDocuments(queryEmbedding, docs) ==
    [i \in DOMAIN docs |->
        [content |-> docs[i].content,
         score |-> CosineOf(queryEmbedding, docs[i].embedding),
         metadata |-> [title |-> docs[i].title,
                       upload_date |-> docs[i].upload_date]]]

\* searchDocuments(query, topK): the arrays it may return.  An error of the
\* fetch, and an empty table, both give the empty array.
SearchResults(queryEmbedding, docs, topK, fetchOk) ==
    IF ~fetchOk \/ Len(docs) = 0 THEN {<< >>}
    ELSE {Slice(sorted, topK) :
            sorted \in SortOutcomes(ScoreDocuments(queryEmbedding, docs))}

SearchDocuments(query, topK, fetchOk) ==
    /\ LET queryEmbedding == EmbeddingOf(query)
       IN  \E results \in SearchResults(queryEmbedding, documents, topK, fetchOk) :
             search' = [pc |-> "returned", query |-> query, topK |-> topK,
                        fetchOk |-> fetchOk,
                        queryEmbedding |-> queryEmbedding,
                        fetched |-> IF fetchOk THEN documents ELSE << >>,
                        scored |-> IF fetchOk
                                   THEN ScoreDocuments(queryEmbedding, documents)
                                   ELSE << >>,
                        results |-> results]
    /\ lastCall' = [op |-> "searchDocuments", ok |-> fetchOk, id |-> 0]
    /\ UNCHANGED docVars

Documents == [title : Titles, content : DocTexts, file_path : {"null"}]

InitSearch ==
    /\ FnIdle /\ EmbIdle /\ DocsIdle /\ SearchIdle /\ GenIdle /\ QueryIdle
    /\ PagesIdle /\ ExtIdle

NextSearch ==
    \/ \E document \in Documents, remoteOk \in BOOLEAN :
          /\ StoreDocument(document, remoteOk)
          /\ UNCHANGED <<fnVars, embVars, genVars, queryVars, pageVars, extVars>>
    \/ \E id \in 1..MaxDocs, remoteOk \in BOOLEAN :
          /\ DeleteDocument(id, remoteOk)
          /\ UNCHANGED <<fnVars, embVars, genVars, queryVars, pageVars, extVars>>
    \/ \E query \in Texts, topK \in TopKs, fetchOk \in BOOLEAN :
          /\ SearchDocuments(query, topK, fetchOk)
          /\ UNCHANGED <<fnVars, embVars, genVars, queryVars, pageVars, extVars>>

SpecSearch == InitSearch /\ [][NextSearch]_vars

(***************************************************************************)
(* generateResponse: the call of the language model and its catch block    *)
(***************************************************************************)
\* longest error message, in pieces
MaxMessageLen == 2

\* pieces an error message is made of: the three markers the catch block
\* looks for, and others
MessagePieces == {"API_KEY", "quota", "SAFETY", "fetch failed", "400", " "}

ErrorMessages == UNION {[1..n -> MessagePieces] : n \in 0..MaxMessageLen}

\* what this.model.generateContent(prompt) and response.text() do: give a
\* text, throw an Error with a message, or throw a value that is no Error
LlmOutcomes ==
    {[kind |-> "text", isError |-> FALSE, message |-> <<"answer">>]}
        \cup {[kind |-> "throw", isError |-> TRUE, message |-> msg] :
                 msg \in ErrorMessages}
        \cup {[kind |-> "throw", isError |-> FALSE, message |-> EmptyText]}

\* error.message.includes(marker)
Includes(message, marker) == \E i \in DOMAIN message : message[i] = marker

ApiKeyResponse ==
    <<"Error: Invalid API key. Please check your Gemini API configuration.">>

QuotaResponse == <<"Error: API quota exceeded. Please try again later.">>

SafetyResponse ==
    <<"The content was blocked for safety reasons. Please try rephrasing your question.">>

\* the template literal of the last return of the catch block
ApologyResponse(detail) ==
    <<"I apologize, but I encountered an error while generating a response: ">>
        \o detail \o <<". Please try again.">>

\* the catch block of generateResponse with the test for 'quota' made first
CatchBlockQuotaFirst(outcome) ==
    IF outcome.isError /\ Includes(outcome.message, "quota")
        THEN QuotaResponse
    ELSE IF outcome.isError /\ Includes(outcome.message, "API_KEY")
        THEN ApiKeyResponse
    ELSE IF outcome.isError /\ Includes(outcome.message, "SAFETY")
        THEN SafetyResponse
    ELSE ApologyResponse(IF outcome.isError THEN outcome.message
                         ELSE <<"Unknown error">>)

\* catch (error) { ... }: the string the catch block returns
CatchBlock(outcome) ==
    IF outcome.isError /\ Includes(outcome.message, "API_KEY")
        THEN ApiKeyResponse
    ELSE IF outcome.isError /\ Includes(outcome.message, "quota")
        THEN QuotaResponse
    ELSE IF outcome.isError /\ Includes(outcome.message, "SAFETY")
        THEN SafetyResponse
    ELSE ApologyResponse(IF outcome.isError THEN outcome.message
                         ELSE <<"Unknown error">>)

\* SupabaseRAGService.generateResponse(query, context): how the promise
\* settles when the model call has the given outcome.  Every throw inside the
\* try block is caught and every path of the catch block returns.
generateResponse(query, context, outcome) ==
    IF outcome.kind = "text"
    THEN [rejected |-> FALSE, value |-> outcome.message]
    ELSE [rejected |-> FALSE, value |-> CatchBlock(outcome)]

\* RAGService.generateResponse(query, context): the same try and catch, with
\* one more console.error of JSON.stringify(error) before the tests
RagGenerateResponse(query, context, outcome) ==
    IF outcome.kind = "text"
    THEN [rejected |-> FALSE, value |-> outcome.message]
    ELSE [rejected |-> FALSE,
          value |->
            IF outcome.isError /\ Includes(outcome.message, "API_KEY")
                THEN ApiKeyResponse
            ELSE IF outcome.isError /\ Includes(outcome.message, "quota")
                THEN QuotaResponse
            ELSE IF outcome.isError /\ Includes(outcome.message, "SAFETY")
                THEN SafetyResponse
            ELSE ApologyResponse(IF outcome.isError THEN outcome.message
                                 ELSE <<"Unknown error">>)]

InitGenerate ==
    /\ genIn \in LlmOutcomes
    /\ genOut = NoGenOut
    /\ FnIdle /\ EmbIdle /\ DocsIdle /\ SearchIdle /\ QueryIdle /\ PagesIdle
    /\ ExtIdle

\* generateResponse(query, context) in one of the two services
CallGenerateResponse(svc, query, context) ==
    /\ genOut.svc = "none"
    /\ genOut' = [svc |-> svc,
                  settled |-> IF svc = "supabase"
                              THEN generateResponse(query, context, genIn)
                              ELSE RagGenerateResponse(query, context, genIn)]
    /\ UNCHANGED genIn

NextGenerate ==
    \E svc \in Services :
        /\ CallGenerateResponse(svc, TextCat, TextDog)
        /\ UNCHANGED <<fnVars, embVars, docVars, searchVars, queryVars,
                     pageVars, extVars>>

SpecGenerate == InitGenerate /\ [][NextGenerate]_vars

(***************************************************************************)
(* processQuery, in both services                                          *)
(***************************************************************************)
\* largest number of documents in store when the query is made
MaxCorpus == 6

\* contents of the documents in store
CorpusTexts == {TextCat, TextDog}

Queries == {TextCat, EmptyText}

Corpora == UNION {[1..n -> CorpusTexts] : n \in 0..MaxCorpus}

\* what the model call of a query does
QueryOutcomes ==
    {o \in LlmOutcomes : o.message \in {<<"answer">>, <<"quota">>, EmptyText}}

\* the documents table after storeDocument was called for each content
StoredRows(contents) ==
    [i \in DOMAIN contents |->
        [id |-> i, title |-> "doc", content |-> contents[i],
         file_path |-> "null", embedding |-> EmbeddingOf(contents[i]),
         upload_date |-> i]]

RECURSIVE RagEmbeddingTableOver(_)
RagEmbeddingTableOver(texts) ==
    IF texts = {} THEN << >>
    ELSE LET t == CHOOSE x \in texts : TRUE
         IN  (t :> RagGenerateEmbedding(t)) @@ RagEmbeddingTableOver(texts \ {t})

RagEmbeddingTable == RagEmbeddingTableOver(Texts)

\* await this.generateEmbedding(text) in RAGService
RagEmbeddingOf(text) == RagEmbeddingTable[text]

RagRowEmbeddings == {RagEmbeddingTable[t] : t \in Texts}

RECURSIVE BrowserCosineTableOver(_)
BrowserCosineTableOver(pairs) ==
    IF pairs = {} THEN << >>
    ELSE LET p == CHOOSE x \in pairs : TRUE
         IN  (p :> BrowserCosineSimilarity(p[1], p[2]))
                 @@ BrowserCosineTableOver(pairs \ {p})

BrowserCosineTable ==
    BrowserCosineTableOver(RagRowEmbeddings \X RagRowEmbeddings)

\* this.cosineSimilarity(queryEmbedding, doc.embedding) in BrowserVectorStore
BrowserCosineOf(a, b) == BrowserCosineTable[<<a, b>>]

\* the array of the browser store after RAGService.storeDocument was called
\* for each content
BrowserRows(contents) ==
    [i \in DOMAIN contents |->
        [id |-> i, content |-> contents[i],
         embedding |-> RagEmbeddingOf(contents[i]),
         metadata |-> [title |-> "doc", upload_date |-> i]]]

\* JSON.stringify(this.documents): the text kept under 'rag_documents', one
\* item per document with its members in order; the numbers of an embedding
\* are finite and are written out as they are
JsonStringify(docs) ==
    [present |-> TRUE,
     items |-> [i \in DOMAIN docs |->
                   <<docs[i].id, docs[i].content, docs[i].embedding,
                     docs[i].metadata>>]]

\* JSON.parse(stored)
JsonParse(stored) ==
    [i \in DOMAIN stored.items |->
        [id |-> stored.items[i][1], content |-> stored.items[i][2],
         embedding |-> stored.items[i][3], metadata |-> stored.items[i][4]]]

\* the head of search: this.documents is replaced by what localStorage
\* holds, when it holds something
LoadStored(docs) ==
    IF localStorage.present THEN JsonParse(localStorage) ELSE docs

\* BrowserVectorStore.search(queryEmbedding, topK): the arrays it may return
BrowserSearch(queryEmbedding, rows, topK) ==
    LET results == [i \in DOMAIN rows |->
                       [content |-> rows[i].content,
                        score |-> BrowserCosineOf(queryEmbedding,
                                                  rows[i].embedding),
                        metadata |-> rows[i].metadata]]
    IN  {Slice(sorted, topK) : sorted \in SortOutcomes(results)}

\* RAGService.searchDocuments(query): topK is left at its default
RagSearchDocuments(query) ==
    BrowserSearch(RagEmbeddingOf(query), LoadStored(ragDocuments), DefaultTopK)

\* contents.join('\n\n')
RECURSIVE Join(_, _)
Join(contents, n) ==
    IF n = 0 THEN EmptyText
    ELSE IF n = 1 THEN contents[1]
    ELSE Join(contents, n - 1) \o <<"\n\n">> \o contents[n]

\* sources.slice(0, 3), with the whole array taken instead
ContextSourcesAll(sources) == sources

\* sources.slice(0, 3)
ContextSources(sources) == Slice(sources, ContextDocs)

\* sources.slice(0, 3).map(source => source.content).join('\n\n')
CombineContext(sources) ==
    LET top == ContextSources(sources)
    IN  Join([i \in DOMAIN top |-> top[i].content], Len(top))

NoDocumentsResponse ==
    <<"I don't have any relevant documents to answer your question. Please upload some documents first.">>

\* the row saveChatMessage inserts; sources left out is stored as null, which
\* the empty array stands for
ChatRow(content, role, sources) ==
    [content |-> content, role |-> role, sources |-> sources]

\* saveChatMessage(content, role, sources): the insert is awaited and its
\* result is not looked at; a failure leaves the table as it is
SaveChatMessage(content, role, sources, remoteOk) ==
    chat_messages' = IF remoteOk
                     THEN Append(chat_messages, ChatRow(content, role, sources))
                     ELSE chat_messages

\* where processQuery goes after saveChatMessage when that lets the failure
\* of its insert out
AfterSaveRethrow(remoteOk) == IF remoteOk THEN "returned" ELSE "rejected"

\* where processQuery goes after saveChatMessage: the catch block of
\* saveChatMessage logs the failure and the promise resolves
AfterSave(remoteOk) == "returned"

Bump(calls, key) == [calls EXCEPT ![key] = @ + 1]

\* SupabaseRAGService.processQuery(query) up to the end of its first await:
\* the user message is saved
ProcessQuery(query, remoteOk) ==
    /\ pq.pc = "idle"
    /\ SaveChatMessage(query, "user", << >>, remoteOk)
    /\ pq' = [pq EXCEPT !.pc = IF AfterSave(remoteOk) = "returned"
                                THEN "search" ELSE "rejected",
                        !.svc = "supabase", !.query = query,
                        !.calls = Bump(pq.calls, "saveUser")]
    /\ UNCHANGED ragDocuments

\* RAGService.processQuery(query) up to its first await
RagProcessQuery(query) ==
    /\ pq.pc = "idle"
    /\ pq' = [pq EXCEPT !.pc = "search", !.svc = "browser", !.query = query]
    /\ UNCHANGED <<chat_messages, ragDocuments>>

\* where processQuery goes after the search when the branch of no sources
\* returns without saving the assistant message
AfterSearchNoSave(svc, sources) ==
    IF Len(sources) > 0 THEN "generate" ELSE "returned"

\* where processQuery goes after the search, by sources.length
AfterSearch(svc, sources) ==
    IF Len(sources) > 0 THEN "generate"
    ELSE IF svc = "supabase" THEN "saveAssistant" ELSE "returned"

\* const sources = await this.searchDocuments(query), and what follows up to
\* the next await
SearchStep(fetchOk) ==
    /\ pq.pc = "search"
    /\ pq.svc = "browser" => fetchOk
    /\ \E sources \in
            IF pq.svc = "supabase"
            THEN SearchResults(EmbeddingOf(pq.query), documents, DefaultTopK,
                               fetchOk)
            ELSE RagSearchDocuments(pq.query) :
          pq' = [pq EXCEPT
                    !.pc = AfterSearch(pq.svc, sources),
                    !.sources = sources,
                    !.context = IF Len(sources) > 0
                                THEN CombineContext(sources) ELSE EmptyText,
                    !.response = IF Len(sources) > 0 THEN EmptyText
                                 ELSE NoDocumentsResponse,
                    !.calls = Bump(pq.calls, "search")]
    /\ ragDocuments' = IF pq.svc = "browser" THEN LoadStored(ragDocuments)
                       ELSE ragDocuments
    /\ UNCHANGED chat_messages

\* where processQuery goes after generateResponse has settled, going back to
\* the model call when that call failed
AfterGenerateRetry(svc, settled, outcome) ==
    IF settled.rejected THEN "rejected"
    ELSE IF outcome.kind = "throw" THEN "generate"
    ELSE IF svc = "supabase" THEN "saveAssistant" ELSE "returned"

\* where processQuery goes after generateResponse has settled
AfterGenerate(svc, settled, outcome) ==
    IF settled.rejected THEN "rejected"
    ELSE IF svc = "supabase" THEN "saveAssistant" ELSE "returned"

\* const response = await this.generateResponse(query, context)
GenerateStep(outcome) ==
    /\ pq.pc = "generate"
    /\ LET settled == IF pq.svc = "supabase"
                      THEN generateResponse(pq.query, pq.context, outcome)
                      ELSE RagGenerateResponse(pq.query, pq.context, outcome)
           next == AfterGenerate(pq.svc, settled, outcome)
       IN  pq' = [pq EXCEPT
                    !.pc = next,
                    !.outcome = outcome,
                    !.response = settled.value,
                    !.returned = IF next = "returned" THEN pq.sources
                                 ELSE << >>,
                    !.calls = Bump(pq.calls, "llm")]
    /\ UNCHANGED <<chat_messages, ragDocuments>>

\* await this.saveChatMessage(response, 'assistant', sources), without the
\* sources when there are none, and the return
SaveAssistantStep(remoteOk) ==
    /\ pq.pc = "saveAssistant"
    /\ SaveChatMessage(pq.response, "assistant", pq.sources, remoteOk)
    /\ LET next == AfterSave(remoteOk)
       IN  pq' = [pq EXCEPT !.pc = next,
                           !.returned = IF next = "returned" THEN pq.sources
                                        ELSE << >>,
                           !.calls = Bump(pq.calls, "saveAssistant")]
    /\ UNCHANGED ragDocuments

InitQuery ==
    /\ \E contents \in Corpora :
          /\ documents = StoredRows(contents)
          /\ clock = Len(contents) + 1
          /\ ragDocuments = BrowserRows(contents)
          /\ localStorage = IF contents = << >> THEN NoStored
                            ELSE JsonStringify(BrowserRows(contents))
    /\ chat_messages = << >>
    /\ pq = NoQuery
    /\ storeLog = << >> /\ ragSearch = NoRagSearch
    /\ FnIdle /\ EmbIdle /\ SearchIdle /\ GenIdle /\ PagesIdle
    /\ SessionsIdle /\ UploadIdle /\ DashIdle /\ MoreIdle

NextQuery ==
    \/ \E query \in Queries, remoteOk \in BOOLEAN :
          /\ ProcessQuery(query, remoteOk)
          /\ UNCHANGED <<fnVars, embVars, docVars, searchVars, genVars,
                       pageVars, extVars>>
    \/ \E query \in Queries :
          /\ RagProcessQuery(query)
          /\ UNCHANGED <<fnVars, embVars, docVars, searchVars, genVars,
                       pageVars, extVars>>
    \/ \E fetchOk \in BOOLEAN :
          /\ SearchStep(fetchOk)
          /\ UNCHANGED <<fnVars, embVars, docVars, searchVars, genVars,
                       pageVars, extVars>>
    \/ \E outcome \in QueryOutcomes :
          /\ GenerateStep(outcome)
          /\ UNCHANGED <<fnVars, embVars, docVars, searchVars, genVars,
                       pageVars, extVars>>
    \/ \E remoteOk \in BOOLEAN :
          /\ SaveAssistantStep(remoteOk)
          /\ UNCHANGED <<fnVars, embVars, docVars, searchVars, genVars,
                       pageVars, extVars>>

SpecQuery == InitQuery /\ [][NextQuery]_vars

(***************************************************************************)
(* BrowserVectorStore: store, search, and the reload of the page, which    *)
(* makes a new RAGService with a new, empty BrowserVectorStore while        *)
(* localStorage stays                                                      *)
(***************************************************************************)
\* store calls followed in one behaviour
MaxStores == 3

\* ids documents are stored under
StoreIds == {1, 2}

StoreTopKs == {1, DefaultTopK}

\* the query of the searches
StoreQueries == {TextDog}

\* the call as the log keeps it: what was passed, and whether the promise of
\* store resolved
StoreCall(id, content, embedding, metadata, resolved) ==
    [id |-> id, content |-> content, embedding |-> embedding,
     metadata |-> metadata, resolved |-> resolved]

\* the push without the filter before it
PushOnly(docs, id, content, embedding, metadata) ==
    Append(docs, [id |-> id, content |-> content, embedding |-> embedding,
                  metadata |-> metadata])

\* this.documents.filter(doc => doc.id !== id) and the push
FilterAndPush(docs, id, content, embedding, metadata) ==
    Append(SelectSeq(docs, LAMBDA doc : doc.id # id),
           [id |-> id, content |-> content, embedding |-> embedding,
            metadata |-> metadata])

\* RAGService.storeDocument(document): the embedding of the content, then
\* BrowserVectorStore.store.  setItem throws when the quota of localStorage
\* is used up: the array has the document by then, localStorage keeps what
\* it had, and the promise rejects.
RagStoreDocument(id, content, quotaOk) ==
    /\ Len(storeLog) < MaxStores
    /\ LET embedding == RagEmbeddingOf(content)
           metadata == [title |-> "doc", upload_date |-> Len(storeLog) + 1]
           docs == FilterAndPush(ragDocuments, id, content, embedding, metadata)
       IN  /\ ragDocuments' = docs
           /\ localStorage' = IF quotaOk THEN JsonStringify(docs)
                              ELSE localStorage
           /\ storeLog' = Append(storeLog,
                                 StoreCall(id, content, embedding, metadata,
                                           quotaOk))
    /\ ragSearch' = NoRagSearch

\* RAGService.searchDocuments(query, topK)
RagSearch(query, topK) ==
    /\ ragDocuments' = LoadStored(ragDocuments)
    /\ \E results \in BrowserSearch(RagEmbeddingOf(query),
                                    LoadStored(ragDocuments), topK) :
          ragSearch' = [pc |-> "returned", topK |-> topK, results |-> results]
    /\ UNCHANGED <<localStorage, storeLog>>

\* the page is loaded again: the module is evaluated anew
Reload ==
    /\ ragDocuments # << >>
    /\ ragDocuments' = << >>
    /\ ragSearch' = NoRagSearch
    /\ UNCHANGED <<localStorage, storeLog>>

InitStore ==
    /\ ragDocuments = << >> /\ StoreIdle
    /\ chat_messages = << >> /\ pq = NoQuery
    /\ FnIdle /\ EmbIdle /\ DocsIdle /\ SearchIdle /\ GenIdle /\ PagesIdle
    /\ SessionsIdle /\ UploadIdle /\ DashIdle /\ MoreIdle

storeFrame ==
    <<fnVars, embVars, docVars, searchVars, genVars, chat_messages, pq,
      pageVars, sessionVars, uploadVars, dashVars, moreVars>>

NextStore ==
    \/ \E id \in StoreIds, content \in CorpusTexts, quotaOk \in BOOLEAN :
          RagStoreDocument(id, content, quotaOk) /\ UNCHANGED storeFrame
    \/ \E query \in StoreQueries, topK \in StoreTopKs :
          RagSearch(query, topK) /\ UNCHANGED storeFrame
    \/ Reload /\ UNCHANGED storeFrame

SpecStore == InitStore /\ [][NextStore]_vars

(***************************************************************************)
(* The page views: Todo, Notes and Upload                                  *)
(* One page view is mounted for the length of a behaviour.  A table is a   *)
(* sequence of rows, oldest first (todos by created_at, notes by           *)
(* updated_at, documents by upload_date).                                  *)
(***************************************************************************)
\* most rows ever inserted into todos, and into notes
MaxRows == 2

\* most fetches of a page in flight at once
MaxPending == 2

Pages == {"todo", "notes", "upload"}

\* what the user may have typed as a title: nothing, a blank, or a title
TodoTitles == {"", " ", "task"}

DocumentTitles == {"", " ", "doc"}

NoteTitles == {"", "note", "memo"}

\* the text of the text area of the Upload page
PageTexts == {EmptyText, <<" ">>, TextCat}

\* toast({ title, ... }) without a variant
Toast(title) == [title |-> title, variant |-> "default"]

\* toast({ title, ..., variant: "destructive" })
DestructiveToast(title) == [title |-> title, variant |-> "destructive"]

\* what the handler that has just run did: the remote call it made (kind, and
\* the id it named with .eq), whether that call failed, the toast it raised
\* and whether the failure went to the console
Handled(op, kind, id, failed, toast, logged) ==
    [op |-> op, kind |-> kind, id |-> id, failed |-> failed,
     toast |-> toast, logged |-> logged]

\* .order(column, { ascending: false }) of a table kept oldest first
Reverse(rows) == [i \in DOMAIN rows |-> rows[Len(rows) + 1 - i]]

Ids(rows) == {rows[i].id : i \in DOMAIN rows}

\* the row of the array with the given id (the array holds one)
RowOf(rows, id) == rows[CHOOSE i \in DOMAIN rows : rows[i].id = id]

(***************************************************************************)
(* Todo                                                                    *)
(***************************************************************************)
\* loadTodos(), from its request to its end
LoadTodos(remoteOk) ==
    /\ page = "todo" /\ pendingFetch > 0
    /\ pendingFetch' = pendingFetch - 1
    /\ view' = IF remoteOk THEN [view EXCEPT !.todos = Reverse(todos)] ELSE view
    /\ handled' = Handled("loadTodos", "fetch", 0, ~remoteOk, NoToast, ~remoteOk)
    /\ UNCHANGED <<todos, notes, rowIds, page, form>>

\* the catch block of a Todo handler with the catch block of loadTodos in
\* its place
TodoCatchLogOnly(description) == [toast |-> NoToast, logged |-> TRUE]

\* the catch block of addTodo, toggleTodo and deleteTodo: a toast, no log
TodoCatch(description) ==
    [toast |-> DestructiveToast("Error"), logged |-> FALSE]

\* newTodo.trim(), for what may be typed
TrimTitle(title) == IF title = " " THEN "" ELSE title

\* onChange of the input: setNewTodo(e.target.value)
SetNewTodo(text) ==
    /\ page = "todo" /\ text # form.newTodo
    /\ form' = [form EXCEPT !.newTodo = text]
    /\ handled' = Handled("setNewTodo", "none", 0, FALSE, NoToast, FALSE)
    /\ UNCHANGED <<todos, notes, rowIds, page, view, pendingFetch>>

\* setTodos called before the answer of the remote call is looked at
SetTodosOptimistic(remoteOk, prev, next) == next

\* if (error) throw error comes before setTodos: the array of the page
\* changes when the remote call succeeded and stays when it failed
SetTodos(remoteOk, prev, next) == IF remoteOk THEN next ELSE prev

\* addTodo() with newTodo as typed
AddTodo(remoteOk) ==
    /\ page = "todo"
    /\ rowIds.todos <= MaxRows
    /\ IF TrimTitle(form.newTodo) = ""
       THEN /\ handled' = Handled("addTodo", "none", 0, FALSE, NoToast, FALSE)
            /\ UNCHANGED <<todos, rowIds, view, form>>
       ELSE LET data == [id |-> rowIds.todos, title |-> TrimTitle(form.newTodo),
                         completed |-> FALSE]
                caught == TodoCatch("Failed to add todo. Please try again.")
            IN  /\ todos' = IF remoteOk THEN Append(todos, data) ELSE todos
                /\ rowIds' = IF remoteOk THEN [rowIds EXCEPT !.todos = @ + 1]
                             ELSE rowIds
                /\ view' = [view EXCEPT
                              !.todos = SetTodos(remoteOk, @, <<data>> \o @)]
                /\ form' = [form EXCEPT
                              !.newTodo = IF remoteOk THEN "" ELSE @]
                /\ handled' =
                     IF remoteOk
                     THEN Handled("addTodo", "insert", data.id, FALSE,
                                  Toast("Todo added"), FALSE)
                     ELSE Handled("addTodo", "insert", 0, TRUE,
                                  caught.toast, caught.logged)
    /\ UNCHANGED <<notes, page, pendingFetch>>

\* .update({ field: value }).eq('id', id) on a table
UpdateEq(rows, id, field, value) ==
    [i \in DOMAIN rows |->
        IF rows[i].id = id THEN [rows[i] EXCEPT ![field] = value] ELSE rows[i]]

\* toggleTodo(id, completed), called from the check box of a listed todo
ToggleTodo(id, remoteOk) ==
    /\ page = "todo"
    /\ id \in Ids(view.todos)
    /\ LET completed == ~RowOf(view.todos, id).completed
           caught == TodoCatch("Failed to update todo. Please try again.")
       IN  /\ todos' = IF remoteOk
                       THEN UpdateEq(todos, id, "completed", completed)
                       ELSE todos
           /\ view' = [view EXCEPT
                         !.todos = SetTodos(remoteOk, @,
                                            UpdateEq(@, id, "completed",
                                                     completed))]
           /\ handled' =
                IF remoteOk
                THEN Handled("toggleTodo", "update", id, FALSE, NoToast, FALSE)
                ELSE Handled("toggleTodo", "update", id, TRUE,
                             caught.toast, caught.logged)
    /\ UNCHANGED <<notes, rowIds, page, pendingFetch, form>>

\* deleteTodo(id), called from the button of a listed todo
DeleteTodo(id, remoteOk) ==
    /\ page = "todo"
    /\ id \in Ids(view.todos)
    /\ LET caught == TodoCatch("Failed to delete todo. Please try again.")
       IN  /\ todos' = IF remoteOk THEN DeleteEq(todos, id) ELSE todos
           /\ view' = [view EXCEPT
                         !.todos = SetTodos(remoteOk, @,
                                            SelectSeq(@, LAMBDA todo :
                                                            todo.id # id))]
           /\ handled' =
                IF remoteOk
                THEN Handled("deleteTodo", "delete", id, FALSE,
                             Toast("Todo deleted"), FALSE)
                ELSE Handled("deleteTodo", "delete", id, TRUE,
                             caught.toast, caught.logged)
    /\ UNCHANGED <<notes, rowIds, page, pendingFetch, form>>

(***************************************************************************)
(* Notes                                                                   *)
(***************************************************************************)
\* fetchNotes(), from its request to its end
FetchNotes(remoteOk) ==
    /\ page = "notes" /\ pendingFetch > 0
    /\ pendingFetch' = pendingFetch - 1
    /\ view' = IF remoteOk THEN [view EXCEPT !.notes = Reverse(notes)] ELSE view
    /\ handled' = IF remoteOk
                  THEN Handled("fetchNotes", "fetch", 0, FALSE, NoToast, FALSE)
                  ELSE Handled("fetchNotes", "fetch", 0, TRUE,
                               DestructiveToast("Error fetching notes"), TRUE)
    /\ UNCHANGED <<todos, notes, rowIds, page, form>>

\* handleCreateNote() with newNote.title as typed; fetchNotes() is started
\* and not awaited
HandleCreateNote(title, remoteOk) ==
    /\ page = "notes"
    /\ rowIds.notes <= MaxRows /\ pendingFetch < MaxPending
    /\ IF title = ""
       THEN /\ handled' = Handled("handleCreateNote", "none", 0, FALSE,
                                  NoToast, FALSE)
            /\ UNCHANGED <<notes, rowIds, pendingFetch>>
       ELSE IF remoteOk
       THEN /\ notes' = Append(notes, [id |-> rowIds.notes, title |-> title])
            /\ rowIds' = [rowIds EXCEPT !.notes = @ + 1]
            /\ pendingFetch' = pendingFetch + 1
            /\ handled' = Handled("handleCreateNote", "insert", rowIds.notes,
                                  FALSE, Toast("Note created successfully!"),
                                  FALSE)
       ELSE /\ handled' = Handled("handleCreateNote", "insert", 0, TRUE,
                                  DestructiveToast("Error creating note"), TRUE)
            /\ UNCHANGED <<notes, rowIds, pendingFetch>>
    /\ UNCHANGED <<todos, page, view, form>>

\* the update of a note: new values and a new updated_at, which makes the
\* row the newest of the table
TouchEq(rows, id, field, value) ==
    DeleteEq(rows, id) \o
        SelectSeq(UpdateEq(rows, id, field, value), LAMBDA r : r.id = id)

\* handleUpdateNote() with editingNote a listed note, its title as edited
HandleUpdateNote(id, title, remoteOk) ==
    /\ page = "notes"
    /\ id \in Ids(view.notes) /\ pendingFetch < MaxPending
    /\ IF title = ""
       THEN /\ handled' = Handled("handleUpdateNote", "none", id, FALSE,
                                  NoToast, FALSE)
            /\ UNCHANGED <<notes, pendingFetch>>
       ELSE IF remoteOk
       THEN /\ notes' = TouchEq(notes, id, "title", title)
            /\ pendingFetch' = pendingFetch + 1
            /\ handled' = Handled("handleUpdateNote", "update", id, FALSE,
                                  Toast("Note updated successfully!"), FALSE)
       ELSE /\ handled' = Handled("handleUpdateNote", "update", id, TRUE,
                                  DestructiveToast("Error updating note"), TRUE)
            /\ UNCHANGED <<notes, pendingFetch>>
    /\ UNCHANGED <<todos, rowIds, page, view, form>>

\* handleDeleteNote(id), called from the button of a listed note
HandleDeleteNote(id, remoteOk) ==
    /\ page = "notes"
    /\ id \in Ids(view.notes) /\ pendingFetch < MaxPending
    /\ IF remoteOk
       THEN /\ notes' = DeleteEq(notes, id)
            /\ pendingFetch' = pendingFetch + 1
            /\ handled' = Handled("handleDeleteNote", "delete", id, FALSE,
                                  Toast("Note deleted successfully!"), FALSE)
       ELSE /\ handled' = Handled("handleDeleteNote", "delete", id, TRUE,
                                  DestructiveToast("Error deleting note"), TRUE)
            /\ UNCHANGED <<notes, pendingFetch>>
    /\ UNCHANGED <<todos, rowIds, page, view, form>>

(***************************************************************************)
(* Upload                                                                  *)
(***************************************************************************)
\* .select('id, title, file_type, upload_date') of getDocuments
ListedDocument(row) ==
    [id |-> row.id, title |-> row.title, upload_date |-> row.upload_date]

\* getDocuments(): the rows newest first; a failure is logged and gives the
\* empty array
GetDocuments(remoteOk) ==
    IF remoteOk
    THEN Reverse([i \in DOMAIN documents |-> ListedDocument(documents[i])])
    ELSE << >>

\* loadDocuments(), from its request to its end
LoadDocuments(remoteOk) ==
    /\ page = "upload" /\ pendingFetch > 0
    /\ pendingFetch' = pendingFetch - 1
    /\ view' = [view EXCEPT !.documents = GetDocuments(remoteOk)]
    /\ handled' = Handled("loadDocuments", "fetch", 0, ~remoteOk, NoToast,
                          ~remoteOk)
    /\ UNCHANGED <<todos, notes, rowIds, page, form, docVars, searchVars>>

\* textInput.trim(): the blanks at both ends go
RECURSIVE TrimText(_)
TrimText(text) ==
    IF text = EmptyText THEN text
    ELSE IF text[1] = " " THEN TrimText(Tail(text))
    ELSE IF text[Len(text)] = " " THEN TrimText(SubSeq(text, 1, Len(text) - 1))
    ELSE text

\* onChange of the title input, which is disabled while a save is under way
SetDocumentTitle(title) ==
    /\ page = "upload" /\ ~form.isSavingText /\ title # form.documentTitle
    /\ form' = [form EXCEPT !.documentTitle = title]
    /\ handled' = Handled("setDocumentTitle", "none", 0, FALSE, NoToast, FALSE)
    /\ UNCHANGED <<todos, notes, rowIds, page, view, pendingFetch, docVars,
                   searchVars>>

\* onChange of the text area, which is disabled while a save is under way
SetTextInput(text) ==
    /\ page = "upload" /\ ~form.isSavingText /\ text # form.textInput
    /\ form' = [form EXCEPT !.textInput = text]
    /\ handled' = Handled("setTextInput", "none", 0, FALSE, NoToast, FALSE)
    /\ UNCHANGED <<todos, notes, rowIds, page, view, pendingFetch, docVars,
                   searchVars>>

\* the end of handleSaveTextDocument without its finally block
SaveEndsStillSaving(f) == [f EXCEPT !.savePc = "idle"]

\* the finally block of handleSaveTextDocument: setIsSavingText(false)
SaveEnds(f) == [f EXCEPT !.savePc = "idle", !.isSavingText = FALSE]

\* handleSaveTextDocument() up to its first await: the two checks, then
\* setIsSavingText(true) and the call of storeDocument with the trimmed title
\* and text
HandleSaveTextDocument ==
    /\ page = "upload" /\ form.savePc = "idle"
    /\ clock <= MaxDocs
    /\ IF TrimText(form.textInput) = EmptyText
       THEN /\ handled' = Handled("handleSaveTextDocument", "none", 0, FALSE,
                                  DestructiveToast("No content to save"), FALSE)
            /\ UNCHANGED form
       ELSE IF TrimTitle(form.documentTitle) = ""
       THEN /\ handled' = Handled("handleSaveTextDocument", "none", 0, FALSE,
                                  DestructiveToast("Title required"), FALSE)
            /\ UNCHANGED form
       ELSE /\ form' = [form EXCEPT
                          !.isSavingText = TRUE, !.savePc = "storeDocument",
                          !.saving = [title |-> TrimTitle(form.documentTitle),
                                      content |-> TrimText(form.textInput)]]
            /\ handled' = Handled("handleSaveTextDocument", "none", 0, FALSE,
                                  NoToast, FALSE)
    /\ UNCHANGED <<todos, notes, rowIds, page, view, pendingFetch, docVars,
                   searchVars>>

\* the answer of storeDocument: on success the toast, the fields are cleared
\* and loadDocuments is called; on failure (storeDocument has logged it) the
\* toast of the catch block, and the finally block
SaveTextStoreStep(remoteOk) ==
    /\ page = "upload" /\ form.savePc = "storeDocument"
    /\ StoreDocument([title |-> form.saving.title,
                      content |-> form.saving.content, file_path |-> "null"],
                     remoteOk)
    /\ form' = IF remoteOk
               THEN [form EXCEPT !.textInput = EmptyText,
                                 !.documentTitle = "",
                                 !.savePc = "loadDocuments"]
               ELSE SaveEnds(form)
    /\ handled' =
         IF remoteOk
         THEN Handled("handleSaveTextDocument", "insert", clock, FALSE,
                      Toast("Document saved successfully"), FALSE)
         ELSE Handled("handleSaveTextDocument", "insert", 0, TRUE,
                      DestructiveToast("Save failed"), TRUE)
    /\ UNCHANGED <<todos, notes, rowIds, page, view, pendingFetch>>

\* the answer of the loadDocuments call handleSaveTextDocument awaits, and
\* the finally block
SaveTextLoadStep(remoteOk) ==
    /\ page = "upload" /\ form.savePc = "loadDocuments"
    /\ view' = [view EXCEPT !.documents = GetDocuments(remoteOk)]
    /\ form' = SaveEnds(form)
    /\ handled' = Handled("loadDocuments", "fetch", 0, ~remoteOk, NoToast,
                          ~remoteOk)
    /\ UNCHANGED <<todos, notes, rowIds, page, pendingFetch, docVars,
                   searchVars>>

\* handleDeleteDocument(id, title), called from the button of a listed
\* document; deleteDocument logs a failure, the handler shows the toast
HandleDeleteDocument(id, remoteOk) ==
    /\ page = "upload"
    /\ id \in Ids(view.documents) /\ pendingFetch < MaxPending
    /\ DeleteDocument(id, remoteOk)
    /\ pendingFetch' = IF remoteOk THEN pendingFetch + 1 ELSE pendingFetch
    /\ handled' =
         IF remoteOk
         THEN Handled("handleDeleteDocument", "delete", id, FALSE,
                      Toast("Document deleted"), FALSE)
         ELSE Handled("handleDeleteDocument", "delete", id, TRUE,
                      DestructiveToast("Delete failed"), TRUE)
    /\ UNCHANGED <<todos, notes, rowIds, page, view, form>>

(***************************************************************************)
(* The pages together                                                      *)
(***************************************************************************)
\* a page view has just been mounted: its effect has started the first fetch
InitPages ==
    /\ page \in Pages
    /\ pendingFetch = 1
    /\ todos = << >> /\ notes = << >>
    /\ rowIds = [todos |-> 1, notes |-> 1]
    /\ view = EmptyView
    /\ handled = NoHandled /\ form = NoForm
    /\ FnIdle /\ EmbIdle /\ DocsIdle /\ SearchIdle /\ GenIdle /\ QueryIdle
    /\ ExtIdle

otherVars == <<fnVars, embVars, genVars, queryVars, extVars>>

NextPages ==
    \/ \E remoteOk \in BOOLEAN :
          LoadTodos(remoteOk) /\ UNCHANGED <<otherVars, docVars, searchVars>>
    \/ \E text \in TodoTitles :
          SetNewTodo(text) /\ UNCHANGED <<otherVars, docVars, searchVars>>
    \/ \E remoteOk \in BOOLEAN :
          AddTodo(remoteOk) /\ UNCHANGED <<otherVars, docVars, searchVars>>
    \/ \E id \in 1..MaxRows, remoteOk \in BOOLEAN :
          ToggleTodo(id, remoteOk)
              /\ UNCHANGED <<otherVars, docVars, searchVars>>
    \/ \E id \in 1..MaxRows, remoteOk \in BOOLEAN :
          DeleteTodo(id, remoteOk)
              /\ UNCHANGED <<otherVars, docVars, searchVars>>
    \/ \E remoteOk \in BOOLEAN :
          FetchNotes(remoteOk) /\ UNCHANGED <<otherVars, docVars, searchVars>>
    \/ \E title \in NoteTitles, remoteOk \in BOOLEAN :
          HandleCreateNote(title, remoteOk)
              /\ UNCHANGED <<otherVars, docVars, searchVars>>
    \/ \E id \in 1..MaxRows, title \in NoteTitles, remoteOk \in BOOLEAN :
          HandleUpdateNote(id, title, remoteOk)
              /\ UNCHANGED <<otherVars, docVars, searchVars>>
    \/ \E id \in 1..MaxRows, remoteOk \in BOOLEAN :
          HandleDeleteNote(id, remoteOk)
              /\ UNCHANGED <<otherVars, docVars, searchVars>>
    \/ \E remoteOk \in BOOLEAN :
          LoadDocuments(remoteOk) /\ UNCHANGED otherVars
    \/ \E title \in DocumentTitles :
          SetDocumentTitle(title) /\ UNCHANGED otherVars
    \/ \E text \in PageTexts : SetTextInput(text) /\ UNCHANGED otherVars
    \/ HandleSaveTextDocument /\ UNCHANGED otherVars
    \/ \E remoteOk \in BOOLEAN :
          SaveTextStoreStep(remoteOk) /\ UNCHANGED otherVars
    \/ \E remoteOk \in BOOLEAN :
          SaveTextLoadStep(remoteOk) /\ UNCHANGED otherVars
    \/ \E id \in 1..MaxDocs, remoteOk \in BOOLEAN :
          HandleDeleteDocument(id, remoteOk) /\ UNCHANGED otherVars

SpecPages == InitPages /\ [][NextPages]_vars

(***************************************************************************)
(* UploadPage.handleFileUpload, followed across its awaits                 *)
(***************************************************************************)
\* most files selected at once
MaxFiles == 2

\* the files the user may select: a text file and an empty file, under two
\* names
Files == [name : {"a.txt", "b.txt"}, content : {TextCat, EmptyText}]

FileBatches == UNION {[1..n -> Files] : n \in 0..MaxFiles}

\* the paths uploadFile makes up, documents/<time>-<random>.<ext>: each one new
Paths == <<"documents/1", "documents/2", "documents/3", "documents/4">>

\* one awaited step of the loop as the log keeps it: the step, the position
\* of the file in the selection, whether it succeeded, and the path it
\* returned (uploadFile) or was given (storeDocument)
Attempt(step, i, ok, path) ==
    [step |-> step, file |-> i, ok |-> ok, path |-> path]

\* the document handleFileUpload hands to storeDocument, without the path
DocumentOfNoPath(file, content, filePath) ==
    [title |-> file.name, content |-> content, file_path |-> "null"]

\* the document handleFileUpload hands to storeDocument
DocumentOf(file, content, filePath) ==
    [title |-> file.name, content |-> content, file_path |-> filePath]

\* a catch block that goes on with the next file of the selection
UploadCatchContinue(u) ==
    IF u.i < Len(u.files)
    THEN [u EXCEPT !.pc = "uploadFile", !.i = @ + 1,
                   !.toasts = Append(@, DestructiveToast("Upload failed"))]
    ELSE [u EXCEPT !.pc = "done", !.isUploading = FALSE,
                   !.toasts = Append(@, DestructiveToast("Upload failed"))]

\* the catch block and the finally block of handleFileUpload
UploadCatch(u) ==
    [u EXCEPT !.pc = "done", !.isUploading = FALSE,
              !.toasts = Append(@, DestructiveToast("Upload failed"))]

\* handleFileUpload(event) up to its first await
HandleFileUpload(files) ==
    /\ page = "upload" /\ upload.pc = "idle"
    /\ upload' = IF files = << >> THEN [upload EXCEPT !.pc = "done"]
                 ELSE [upload EXCEPT !.pc = "uploadFile", !.files = files,
                                     !.i = 1, !.isUploading = TRUE]
    /\ UNCHANGED <<storage, docVars, searchVars, pageVars>>

\* const filePath = await supabaseRAGService.uploadFile(file): null when the
\* storage upload fails, and the handler throws
UploadFileStep(remoteOk) ==
    /\ upload.pc = "uploadFile"
    /\ LET file == upload.files[upload.i]
           path == Paths[Len(storage) + 1]
       IN  IF remoteOk
           THEN /\ storage' = Append(storage, [path |-> path, name |-> file.name])
                /\ upload' = [upload EXCEPT
                                !.pc = "readFileContent", !.filePath = path,
                                !.attempts = Append(@, Attempt("uploadFile",
                                                    upload.i, TRUE, path))]
           ELSE /\ storage' = storage
                /\ upload' = UploadCatch(
                                [upload EXCEPT
                                    !.attempts = Append(@, Attempt("uploadFile",
                                                        upload.i, FALSE, "null"))])
    /\ UNCHANGED <<docVars, searchVars, pageVars>>

\* const content = await readFileContent(file): the promise rejects when the
\* file cannot be read
ReadFileContentStep(readOk) ==
    /\ upload.pc = "readFileContent"
    /\ LET file == upload.files[upload.i]
           tried == [upload EXCEPT
                        !.attempts = Append(@, Attempt("readFileContent",
                                            upload.i, readOk, upload.filePath))]
       IN  upload' = IF readOk
                     THEN [tried EXCEPT !.pc = "storeDocument",
                                        !.content = file.content]
                     ELSE UploadCatch(tried)
    /\ UNCHANGED <<storage, docVars, searchVars, pageVars>>

\* const success = await supabaseRAGService.storeDocument(...), and on
\* success setUploadedFiles and the next file, or after the last file the
\* toast
StoreDocumentStep(remoteOk) ==
    /\ upload.pc = "storeDocument"
    /\ LET file == upload.files[upload.i]
           document == DocumentOf(file, upload.content, upload.filePath)
           tried == [upload EXCEPT
                        !.attempts = Append(@, Attempt("storeDocument", upload.i,
                                            remoteOk, document.file_path))]
           stored == [tried EXCEPT !.uploadedFiles = Append(@, file.name)]
       IN  /\ StoreDocument(document, remoteOk)
           /\ upload' =
                IF ~remoteOk THEN UploadCatch(tried)
                ELSE IF upload.i < Len(upload.files)
                THEN [stored EXCEPT !.pc = "uploadFile", !.i = @ + 1]
                ELSE [stored EXCEPT
                        !.pc = "loadDocuments",
                        !.toasts = Append(@, Toast("Documents uploaded successfully"))]
    /\ UNCHANGED <<storage, pageVars>>

\* await loadDocuments() after the toast, and the finally block
UploadLoadDocumentsStep(remoteOk) ==
    /\ upload.pc = "loadDocuments"
    /\ view' = [view EXCEPT !.documents = GetDocuments(remoteOk)]
    /\ upload' = [upload EXCEPT !.pc = "done", !.isUploading = FALSE]
    /\ UNCHANGED <<storage, docVars, searchVars, todos, notes, rowIds, page,
                   pendingFetch, handled, form>>

\* the Upload page is mounted and has loaded its empty list
InitUpload ==
    /\ page = "upload" /\ pendingFetch = 0
    /\ todos = << >> /\ notes = << >>
    /\ rowIds = [todos |-> 1, notes |-> 1]
    /\ view = EmptyView /\ handled = NoHandled /\ form = NoForm
    /\ UploadIdle
    /\ FnIdle /\ EmbIdle /\ DocsIdle /\ SearchIdle /\ GenIdle /\ QueryIdle
    /\ StoreIdle /\ SessionsIdle /\ DashIdle /\ MoreIdle

uploadFrame ==
    <<fnVars, embVars, genVars, queryVars, storeVars, sessionVars, dashVars, moreVars>>

NextUpload ==
    \/ \E files \in FileBatches : HandleFileUpload(files) /\ UNCHANGED uploadFrame
    \/ \E remoteOk \in BOOLEAN : UploadFileStep(remoteOk) /\ UNCHANGED uploadFrame
    \/ \E readOk \in BOOLEAN :
          ReadFileContentStep(readOk) /\ UNCHANGED uploadFrame
    \/ \E remoteOk \in BOOLEAN :
          StoreDocumentStep(remoteOk) /\ UNCHANGED uploadFrame
    \/ \E remoteOk \in BOOLEAN :
          UploadLoadDocumentsStep(remoteOk) /\ UNCHANGED uploadFrame

SpecUpload == InitUpload /\ [][NextUpload]_vars

(***************************************************************************)
(* Two sessions editing one row: Todo.toggleTodo, Goals.updateGoalProgress *)
(* and Notes.handleUpdateNote.  A handler is followed across its await:    *)
(* the request is built from the session's React state and sent, the       *)
(* database applies the requests in the order it receives them, and the    *)
(* session then acts on the answer.                                        *)
(***************************************************************************)
\* update requests the database applies in one behaviour
MaxWrites == 3

Sessions == {1, 2}

EditedTables == {"todos", "goals", "notes"}

\* what the user may type as the new progress of a goal
GoalValues == {1, 2}

\* what the user may change in the note being edited
NoteEdits == {[field |-> "title", text |-> "memo"],
              [field |-> "content", text |-> "draft"]}

\* the row of each table before the sessions open their pages
InitialRow(table) ==
    IF table = "todos" THEN [table |-> "todos", id |-> 1, completed |-> FALSE]
    ELSE IF table = "goals"
    THEN [table |-> "goals", id |-> 1, current_value |-> 0, target_value |-> 2,
          status |-> "active"]
    ELSE [table |-> "notes", id |-> 1, title |-> "note", content |-> "text",
          updated_at |-> 0]

\* the session has fetched nothing yet
NoRow == [table |-> "none"]

NoRequest == [kind |-> "none"]

FetchRequest == [kind |-> "fetch"]

\* an update request: the columns it writes, and for the record the copy of
\* the row its values were computed from
UpdateRequest(s, values, basis) ==
    [kind |-> "update", session |-> s, values |-> values, basis |-> basis]

\* .update({ completed }) read off the row in the database instead of the
\* session's copy
ToggledCompletedFresh(copy, row) == ~row.completed

\* toggleTodo(todo.id, checked): the check box shows the copy's completed, and
\* checked is its opposite
ToggledCompleted(copy, row) == ~copy.completed

\* the columns toggleTodo writes
ToggleTodoValues(copy, row) == [completed |-> ToggledCompleted(copy, row)]

\* the columns updateGoalProgress writes: goal is found in the session's
\* goals array
UpdateGoalValues(goal, newValue) ==
    [current_value |-> newValue,
     status |-> IF newValue >= goal.target_value THEN "completed" ELSE "active"]

\* the columns handleUpdateNote writes, from editingNote
UpdateNoteValues(editingNote, now) ==
    [title |-> editingNote.title, content |-> editingNote.content,
     updated_at |-> now]

\* new Date() when the request is built
Now == Len(applied) + 1

\* .update(values).eq('id', id) on the row: the columns named are
\* overwritten, the others stay
UpdateRow(row, values) ==
    [c \in DOMAIN row |-> IF c \in DOMAIN values THEN values[c] ELSE row[c]]

Idle(s) == inflight[s].kind = "none" /\ cached[s] # NoRow

\* toggleTodo in session s up to its await
SessionToggleTodo(s) ==
    /\ shared.table = "todos" /\ Idle(s)
    /\ inflight' = [inflight EXCEPT
                      ![s] = UpdateRequest(s, ToggleTodoValues(cached[s], shared),
                                           cached[s])]
    /\ UNCHANGED <<shared, cached, applied>>

\* updateGoalProgress in session s up to its await; the input is shown for a
\* goal that is not completed
SessionUpdateGoalProgress(s, newValue) ==
    /\ shared.table = "goals" /\ Idle(s)
    /\ cached[s].status # "completed"
    /\ inflight' = [inflight EXCEPT
                      ![s] = UpdateRequest(s, UpdateGoalValues(cached[s], newValue),
                                           cached[s])]
    /\ UNCHANGED <<shared, cached, applied>>

\* setEditingNote(note), the edit of one field, and handleUpdateNote in
\* session s up to its await
SessionHandleUpdateNote(s, edit) ==
    /\ shared.table = "notes" /\ Idle(s)
    /\ LET editingNote == [cached[s] EXCEPT ![edit.field] = edit.text]
       IN  inflight' = [inflight EXCEPT
                          ![s] = UpdateRequest(s, UpdateNoteValues(editingNote, Now),
                                               cached[s])]
    /\ UNCHANGED <<shared, cached, applied>>

\* the database applies the update of session s, or fails it; the session
\* then runs the rest of its handler: toggleTodo maps its own array, the
\* other two start a fetch
DatabaseUpdate(s, remoteOk) ==
    /\ inflight[s].kind = "update"
    /\ Len(applied) < MaxWrites
    /\ IF remoteOk
       THEN /\ shared' = UpdateRow(shared, inflight[s].values)
            /\ applied' = Append(applied, inflight[s])
            /\ IF shared.table = "todos"
               THEN /\ cached' = [cached EXCEPT
                                    ![s] = UpdateRow(@, inflight[s].values)]
                    /\ inflight' = [inflight EXCEPT ![s] = NoRequest]
               ELSE /\ inflight' = [inflight EXCEPT ![s] = FetchRequest]
                    /\ UNCHANGED cached
       ELSE /\ inflight' = [inflight EXCEPT ![s] = NoRequest]
            /\ UNCHANGED <<shared, cached, applied>>

\* the fetch of session s (loadTodos, fetchGoals, fetchNotes) ends
DatabaseSelect(s, remoteOk) ==
    /\ inflight[s].kind = "fetch"
    /\ cached' = [cached EXCEPT ![s] = IF remoteOk THEN shared ELSE @]
    /\ inflight' = [inflight EXCEPT ![s] = NoRequest]
    /\ UNCHANGED <<shared, applied>>

\* both sessions have just mounted the page of one table
InitSessions ==
    /\ \E table \in EditedTables : shared = InitialRow(table)
    /\ cached = [s \in Sessions |-> NoRow]
    /\ inflight = [s \in Sessions |-> FetchRequest]
    /\ applied = << >>
    /\ FnIdle /\ EmbIdle /\ DocsIdle /\ SearchIdle /\ GenIdle /\ QueryIdle
    /\ PagesIdle /\ StoreIdle /\ UploadIdle /\ DashIdle /\ MoreIdle

sessionFrame ==
    <<fnVars, embVars, docVars, searchVars, genVars, queryVars, pageVars,
      storeVars, uploadVars, dashVars, moreVars>>

NextSessions ==
    \/ \E s \in Sessions : SessionToggleTodo(s) /\ UNCHANGED sessionFrame
    \/ \E s \in Sessions, newValue \in GoalValues :
          SessionUpdateGoalProgress(s, newValue) /\ UNCHANGED sessionFrame
    \/ \E s \in Sessions, edit \in NoteEdits :
          SessionHandleUpdateNote(s, edit) /\ UNCHANGED sessionFrame
    \/ \E s \in Sessions, remoteOk \in BOOLEAN :
          DatabaseUpdate(s, remoteOk) /\ UNCHANGED sessionFrame
    \/ \E s \in Sessions, remoteOk \in BOOLEAN :
          DatabaseSelect(s, remoteOk) /\ UNCHANGED sessionFrame

SpecSessions == InitSessions /\ [][NextSessions]_vars

(***************************************************************************)
(* Dashboard.fetchDashboardData: the recent activities                     *)
(* The tables are filled by other pages and other clients.  A table is     *)
(* kept in the order a select without an order clause returns its rows,    *)
(* which need not be the order of created_at.                              *)
(***************************************************************************)
\* most rows of todos and events together
MaxItems == 4

\* todos.slice(-3)
TodoTail == 3

\* events.slice(-2)
EventTail == 2

\* activities.slice(0, 5)
RecentLimit == 5

\* every order the members of a set can come in
RECURSIVE Orders(_)
Orders(S) ==
    IF S = {} THEN {<< >>}
    ELSE UNION {{<<x>> \o rest : rest \in Orders(S \ {x})} : x \in S}

\* arr.slice(-n)
SliceLast(arr, n) ==
    SubSeq(arr, IF Len(arr) > n THEN Len(arr) - n + 1 ELSE 1, Len(arr))

\* .gte('start_date', now).lte('start_date', nextWeek) on the events table
UpcomingEvents == SelectSeq(events, LAMBDA e : e.upcoming)

\* activities.sort((a, b) => new Date(b.date).getTime() - new Date(a.date)
\* .getTime()): created_at is never null, the comparator is consistent and
\* the sort is stable, so there is one outcome
RECURSIVE SortByDateDesc(_)
SortByDateDesc(arr) ==
    IF arr = << >> THEN << >>
    ELSE LET sorted == SortByDateDesc(SubSeq(arr, 1, Len(arr) - 1))
             x == arr[Len(arr)]
         IN  SelectSeq(sorted, LAMBDA a : a.date >= x.date) \o <<x>>
                 \o SelectSeq(sorted, LAMBDA a : a.date < x.date)

\* the activities array before the sort: the last 3 fetched todos, then the
\* last 2 fetched events
ActivitiesOf(todosData, eventsData) ==
    LET t == SliceLast(todosData, TodoTail)
        e == SliceLast(eventsData, EventTail)
    IN  [i \in DOMAIN t |->
            [type |-> "Todo", title |-> t[i].title, date |-> t[i].created_at]]
        \o [i \in DOMAIN e |->
            [type |-> "Event", title |-> e[i].title, date |-> e[i].created_at]]

\* fetchDashboardData(): the error of a fetch is not looked at, its data is
\* null and the table counts as empty
FetchDashboardData(todosOk, eventsOk) ==
    /\ ~dashboard.loaded
    /\ LET todosData == IF todosOk THEN todos ELSE << >>
           eventsData == IF eventsOk THEN UpcomingEvents ELSE << >>
       IN  dashboard' =
             [loaded |-> TRUE, todosOk |-> todosOk, eventsOk |-> eventsOk,
              totalTodos |-> Len(todosData),
              upcomingEvents |-> Len(eventsData),
              recentActivities |->
                  Slice(SortByDateDesc(ActivitiesOf(todosData, eventsData)),
                        RecentLimit)]
    /\ UNCHANGED <<events, todos>>

\* the Dashboard page has just been mounted over tables of any content: the
\* row created i-th is a todo, an event of the coming week or another event
InitDashboard ==
    /\ \E n \in 0..MaxItems :
         \E kinds \in [1..n -> {"todo", "event", "later"}] :
           \E t \in Orders({i \in 1..n : kinds[i] = "todo"}),
              e \in Orders({i \in 1..n : kinds[i] # "todo"}) :
             /\ todos = [k \in DOMAIN t |->
                           [id |-> t[k], title |-> "task", completed |-> FALSE,
                            created_at |-> t[k]]]
             /\ events = [k \in DOMAIN e |->
                            [id |-> e[k], title |-> "event",
                             created_at |-> e[k],
                             upcoming |-> kinds[e[k]] = "event"]]
    /\ dashboard = NoDashboard
    /\ notes = << >> /\ rowIds = [todos |-> 1, notes |-> 1]
    /\ page = "dashboard" /\ view = EmptyView /\ pendingFetch = 0
    /\ handled = NoHandled /\ form = NoForm
    /\ FnIdle /\ EmbIdle /\ DocsIdle /\ SearchIdle /\ GenIdle /\ QueryIdle
    /\ StoreIdle /\ SessionsIdle /\ UploadIdle /\ MoreIdle

NextDashboard ==
    \E todosOk \in BOOLEAN, eventsOk \in BOOLEAN :
        /\ FetchDashboardData(todosOk, eventsOk)
        /\ UNCHANGED <<fnVars, embVars, docVars, searchVars, genVars, queryVars,
                       notes, rowIds, page, view, pendingFetch, handled, form,
                       storeVars, sessionVars, uploadVars, moreVars>>

SpecDashboard == InitDashboard /\ [][NextDashboard]_vars

(***************************************************************************)
(* UploadPage: speech input                                                *)
(* The recognition is created with continuous = false and interimResults = *)
(* true: a session is onstart, onresult events that each carry the         *)
(* transcript recognised so far, the last of them final, and onend.        *)
(***************************************************************************)
\* recognition sessions followed
MaxSessions == 2

\* most onresult events of one session
MaxResults == 3

\* what may be said in a session
Utterances == {TextCat}

\* prev + ' ' + transcript
AppendTranscript(prev, transcript) == prev \o <<" ">> \o transcript

\* toggleRecording(): recognition.stop() while recording, recognition.start()
\* otherwise; start() on a recognition that has been started and has not
\* ended throws, and nothing is changed
ToggleRecording ==
    /\ page = "upload"
    /\ speech.pc \in {"idle", "listening"}
    /\ speech.sessions < MaxSessions \/ speech.pc = "listening"
    /\ speech' =
         IF ~speech.supported THEN speech
         ELSE IF speech.isRecording THEN [speech EXCEPT !.pc = "stopping"]
         ELSE [speech EXCEPT !.pc = "starting"]
    /\ handled' = Handled("toggleRecording", "none", 0, FALSE, NoToast, FALSE)
    /\ UNCHANGED form

\* recognitionInstance.onstart: setIsRecording(true)
OnStart(said) ==
    /\ speech.pc = "starting"
    /\ speech' = [speech EXCEPT
                    !.pc = "listening", !.isRecording = TRUE, !.said = said,
                    !.before = form.textInput, !.heard = << >>,
                    !.gotFinal = FALSE, !.final = EmptyText, !.typed = FALSE,
                    !.sessions = @ + 1]
    /\ handled' = Handled("onstart", "none", 0, FALSE, NoToast, FALSE)
    /\ UNCHANGED form

\* recognitionInstance.onresult: event.results holds the one result of the
\* session, whose transcript is the first n pieces of what is said and grows
\* from event to event; after the final result no other result comes
OnResult(n, isFinal) ==
    /\ speech.pc \in {"listening", "stopping"}
    /\ ~speech.gotFinal
    /\ Len(speech.heard) < MaxResults
    /\ n \in 1..Len(speech.said)
    /\ speech.heard # << >> => n >= Len(speech.heard[Len(speech.heard)])
    /\ LET transcript == SubSeq(speech.said, 1, n)
       IN  /\ form' = [form EXCEPT
                         !.textInput = AppendTranscript(@, transcript)]
           /\ speech' = [speech EXCEPT
                           !.heard = Append(@, transcript),
                           !.gotFinal = isFinal,
                           !.final = IF isFinal THEN transcript ELSE @]
    /\ handled' = Handled("onresult", "none", 0, FALSE, NoToast, FALSE)

\* recognitionInstance.onerror: setIsRecording(false) and a toast; onend
\* follows
OnError ==
    /\ speech.pc \in {"listening", "stopping"}
    /\ ~speech.gotFinal
    /\ speech' = [speech EXCEPT !.pc = "failed", !.isRecording = FALSE]
    /\ handled' = Handled("onerror", "none", 0, TRUE,
                          DestructiveToast("Speech Recognition Error"), FALSE)
    /\ UNCHANGED form

\* recognitionInstance.onend: setIsRecording(false)
OnEnd ==
    /\ speech.pc \in {"listening", "stopping", "failed"}
    /\ speech' = [speech EXCEPT !.pc = "idle", !.isRecording = FALSE]
    /\ handled' = Handled("onend", "none", 0, FALSE, NoToast, FALSE)
    /\ UNCHANGED form

\* the Upload page has just been mounted, in a browser with or without
\* speech recognition
InitSpeech ==
    /\ page = "upload" /\ pendingFetch = 0
    /\ todos = << >> /\ notes = << >> /\ rowIds = [todos |-> 1, notes |-> 1]
    /\ view = EmptyView /\ handled = NoHandled /\ form = NoForm
    /\ \E supported \in BOOLEAN :
          speech = [NoSpeech EXCEPT !.supported = supported]
    /\ chat = NoChat /\ adds = NoAdds
    /\ FnIdle /\ EmbIdle /\ DocsIdle /\ SearchIdle /\ GenIdle /\ QueryIdle
    /\ StoreIdle /\ SessionsIdle /\ UploadIdle /\ DashIdle

speechFrame ==
    <<fnVars, embVars, docVars, searchVars, genVars, queryVars, todos, notes,
      rowIds, page, view, pendingFetch, storeVars, sessionVars, uploadVars,
      dashVars, chat, adds>>

NextSpeech ==
    \/ \E text \in PageTexts :
          /\ SetTextInput(text)
          /\ speech' = [speech EXCEPT !.typed = TRUE]
          /\ UNCHANGED <<fnVars, embVars, genVars, queryVars, storeVars,
                         sessionVars, uploadVars, dashVars, chat, adds>>
    \/ ToggleRecording /\ UNCHANGED speechFrame
    \/ \E said \in Utterances : OnStart(said) /\ UNCHANGED speechFrame
    \/ \E n \in 1..MaxResults, isFinal \in BOOLEAN :
          OnResult(n, isFinal) /\ UNCHANGED speechFrame
    \/ OnError /\ UNCHANGED speechFrame
    \/ OnEnd /\ UNCHANGED speechFrame

SpecSpeech == InitSpeech /\ [][NextSpeech]_vars

(***************************************************************************)
(* Chat: loadChatHistory and handleSend                                    *)
(* handleSend is followed across its await; processQuery, whose steps are  *)
(* followed above, is here a call that is answered or rejected some time   *)
(* after it was made.  chat.calls holds the calls made and not yet ended.  *)
(***************************************************************************)
\* handleSend calls that pass their guard
MaxSends == 2

\* what may be typed into the input
ChatInputs == {EmptyText, <<" ">>, TextCat}

\* what the chat_messages table may hold when the page is mounted
ChatHistories ==
    {<< >>,
     <<ChatRow(TextDog, "user", << >>),
       ChatRow(NoDocumentsResponse, "assistant", << >>)>>}

\* how a processQuery call may end: with the answer of the model, with the
\* fixed answer of no documents, or rejected.  None of the steps of
\* processQuery followed above rejects; the catch block of handleSend is
\* followed all the same
ChatOutcomes == {"generated", "noDocuments", "threw"}

\* an answer of the model
ModelResponse == <<"response">>

SendErrorResponse ==
    <<"I apologize, but I encountered an error while processing your request. Please try again.">>

\* a Message built by handleSend, the n-th call's
LocalMessage(n, type, content) ==
    [id |-> [local |-> TRUE, n |-> n], type |-> type, content |-> content]

\* history.map(msg => ({ id: msg.id, type: msg.role, content: msg.content,
\* ... })) over what getChatHistory(50) gives: the rows oldest first, or
\* nothing when the select failed
FormattedMessages(remoteOk) ==
    IF remoteOk
    THEN [i \in DOMAIN chat_messages |->
            [id |-> [local |-> FALSE, n |-> i],
             type |-> chat_messages[i].role,
             content |-> chat_messages[i].content]]
    ELSE << >>

LocalMessages(messages) == SelectSeq(messages, LAMBDA msg : msg.id.local)

\* loadChatHistory(), from its request to its end: setMessages replaces the
\* array of the page
LoadChatHistory(remoteOk) ==
    /\ page = "chat" /\ chat.isLoadingHistory
    /\ chat' = [chat EXCEPT
                  !.messages = FormattedMessages(remoteOk),
                  !.lost = @ \/ LocalMessages(chat.messages) # << >>,
                  !.isLoadingHistory = FALSE]
    /\ handled' = Handled("loadChatHistory", "fetch", 0, ~remoteOk, NoToast,
                          ~remoteOk)

\* onChange of the input, which is rendered once the history has loaded and
\* is disabled while isLoading
SetInput(text) ==
    /\ page = "chat" /\ ~chat.isLoadingHistory /\ ~chat.isLoading
    /\ text # chat.input
    /\ chat' = [chat EXCEPT !.input = text]
    /\ handled' = Handled("setInput", "none", 0, FALSE, NoToast, FALSE)

\* handleSend up to its await without setIsLoading(true)
SendStartsNotLoading(c, userMessage) ==
    [c EXCEPT !.messages = Append(@, userMessage), !.input = EmptyText,
              !.calls = Append(@, [n |-> c.sends + 1, query |-> c.input]),
              !.sends = @ + 1]

\* handleSend past its guard, up to its await: the user message is appended,
\* the input emptied, isLoading set and processQuery(input) called
SendStarts(c, userMessage) ==
    [c EXCEPT !.messages = Append(@, userMessage), !.input = EmptyText,
              !.isLoading = TRUE,
              !.calls = Append(@, [n |-> c.sends + 1, query |-> c.input]),
              !.sends = @ + 1]

\* handleSend(), from the send button (disabled while the trimmed input is
\* empty or isLoading) or from handleKeyPress on Enter in the input (disabled
\* while isLoading); neither is rendered while the history is loading
HandleSend(trigger) ==
    /\ page = "chat" /\ ~chat.isLoadingHistory
    /\ chat.sends < MaxSends
    /\ ~chat.isLoading
    /\ trigger = "button" => TrimText(chat.input) # EmptyText
    /\ IF TrimText(chat.input) = EmptyText \/ chat.isLoading
       THEN /\ chat' = chat
            /\ handled' = Handled("handleSend", "none", 0, FALSE, NoToast,
                                  FALSE)
       ELSE /\ chat' = SendStarts(chat, LocalMessage(chat.sends + 1, "user",
                                                    chat.input))
            /\ handled' = Handled("handleSend", "processQuery",
                                  chat.sends + 1, FALSE, NoToast, FALSE)
    /\ UNCHANGED chat_messages

\* the end of handleSend without its finally block
SendEndsStillLoading(c, i, assistantMessage) ==
    [c EXCEPT !.messages = Append(@, assistantMessage),
              !.calls = SubSeq(@, 1, i - 1) \o SubSeq(@, i + 1, Len(@))]

\* the end of handleSend: the assistant message is appended, by the try or by
\* the catch block, and finally setIsLoading(false)
SendEnds(c, i, assistantMessage) ==
    [c EXCEPT !.messages = Append(@, assistantMessage),
              !.calls = SubSeq(@, 1, i - 1) \o SubSeq(@, i + 1, Len(@)),
              !.isLoading = FALSE]

\* the processQuery call i ends and handleSend resumes after its await:
\* processQuery has tried to save the user message and, unless it was
\* rejected, the assistant message
ProcessQueryEnds(i, outcome, userSaved, assistantSaved) ==
    /\ page = "chat"
    /\ i \in DOMAIN chat.calls
    /\ LET call == chat.calls[i]
           content == IF outcome = "generated" THEN ModelResponse
                      ELSE IF outcome = "noDocuments" THEN NoDocumentsResponse
                      ELSE SendErrorResponse
           saved == (IF userSaved
                     THEN <<ChatRow(call.query, "user", << >>)>> ELSE << >>)
                    \o (IF assistantSaved /\ outcome # "threw"
                        THEN <<ChatRow(content, "assistant", << >>)>>
                        ELSE << >>)
       IN  /\ chat' = SendEnds(chat, i,
                               LocalMessage(call.n, "assistant", content))
           /\ chat_messages' = chat_messages \o saved
           /\ handled' = Handled("handleSend", "resumed", call.n,
                                 outcome = "threw", NoToast, FALSE)

\* the Chat page has just been mounted: its effect has called loadChatHistory
InitChat ==
    /\ page = "chat" /\ pendingFetch = 0
    /\ todos = << >> /\ notes = << >> /\ rowIds = [todos |-> 1, notes |-> 1]
    /\ view = EmptyView /\ handled = NoHandled /\ form = NoForm
    /\ chat_messages \in ChatHistories
    /\ ragDocuments = << >> /\ pq = NoQuery
    /\ chat = NoChat /\ speech = NoSpeech /\ adds = NoAdds
    /\ FnIdle /\ EmbIdle /\ DocsIdle /\ SearchIdle /\ GenIdle
    /\ StoreIdle /\ SessionsIdle /\ UploadIdle /\ DashIdle

chatFrame ==
    <<fnVars, embVars, docVars, searchVars, genVars, ragDocuments, pq, todos,
      notes, rowIds, page, view, pendingFetch, form, storeVars, sessionVars,
      uploadVars, dashVars, speech, adds>>

\* a processQuery call of the page is answered or rejected
ChatCallEnds ==
    \E i \in 1..MaxSends, outcome \in ChatOutcomes,
       userSaved \in BOOLEAN, assistantSaved \in BOOLEAN :
        ProcessQueryEnds(i, outcome, userSaved, assistantSaved)
            /\ UNCHANGED chatFrame

NextChat ==
    \/ \E remoteOk \in BOOLEAN :
          LoadChatHistory(remoteOk) /\ UNCHANGED <<chat_messages, chatFrame>>
    \/ \E text \in ChatInputs :
          SetInput(text) /\ UNCHANGED <<chat_messages, chatFrame>>
    \/ \E trigger \in {"button", "enter"} :
          HandleSend(trigger) /\ UNCHANGED chatFrame
    \/ ChatCallEnds

SpecChat == InitChat /\ [][NextChat]_vars

\* every remote call returns or fails in the end
SpecChatLive == SpecChat /\ WF_vars(ChatCallEnds)

(***************************************************************************)
(* Todo.addTodo followed across its await                                  *)
(* adds.calls holds the inserts requested and not yet answered; adds.typed *)
(* counts the titles typed, and adds.made names, row by row, the typed     *)
(* title each created row came from.                                       *)
(***************************************************************************)
\* addTodo calls that pass their guard
MaxAdds == 3

\* titles typed
MaxTyped == 3

\* onChange of the input, which is never disabled: a title is typed
TypeNewTodo(text) ==
    /\ adds.typed < MaxTyped
    /\ SetNewTodo(text)
    /\ adds' = [adds EXCEPT !.typed = @ + 1]

\* addTodo() up to its await, from the Add button (disabled while the
\* trimmed title is empty or isLoading) or from Enter in the input
AddTodoStarts(trigger) ==
    /\ page = "todo"
    /\ Len(adds.made) + Len(adds.calls) < MaxAdds
    /\ trigger = "button" =>
          (TrimTitle(form.newTodo) # "" /\ ~adds.isLoading)
    /\ IF TrimTitle(form.newTodo) = ""
       THEN /\ adds' = adds
            /\ handled' = Handled("addTodo", "none", 0, FALSE, NoToast, FALSE)
       ELSE /\ adds' = [adds EXCEPT
                          !.isLoading = TRUE,
                          !.calls = Append(@, [title |-> TrimTitle(form.newTodo),
                                               typed |-> adds.typed])]
            /\ handled' = Handled("addTodo", "insert", 0, FALSE, NoToast,
                                  FALSE)
    /\ UNCHANGED <<todos, notes, rowIds, page, view, pendingFetch, form>>

\* the insert of call i is answered and addTodo resumes: on success the row
\* is put in front of the list and the input emptied, on failure the catch
\* block raises its toast, and finally setIsLoading(false)
AddTodoInsertEnds(i, remoteOk) ==
    /\ page = "todo"
    /\ i \in DOMAIN adds.calls
    /\ LET call == adds.calls[i]
           data == [id |-> rowIds.todos, title |-> call.title,
                    completed |-> FALSE]
           caught == TodoCatch("Failed to add todo. Please try again.")
       IN  /\ todos' = IF remoteOk THEN Append(todos, data) ELSE todos
           /\ rowIds' = IF remoteOk THEN [rowIds EXCEPT !.todos = @ + 1]
                        ELSE rowIds
           /\ view' = [view EXCEPT
                         !.todos = SetTodos(remoteOk, @, <<data>> \o @)]
           /\ form' = [form EXCEPT !.newTodo = IF remoteOk THEN "" ELSE @]
           /\ adds' = [adds EXCEPT
                         !.isLoading = FALSE,
                         !.calls = SubSeq(@, 1, i - 1)
                                       \o SubSeq(@, i + 1, Len(@)),
                         !.made = IF remoteOk THEN Append(@, call.typed)
                                  ELSE @]
           /\ handled' =
                IF remoteOk
                THEN Handled("addTodo", "resumed", data.id, FALSE,
                             Toast("Todo added"), FALSE)
                ELSE Handled("addTodo", "resumed", 0, TRUE, caught.toast,
                             caught.logged)
    /\ UNCHANGED <<notes, page, pendingFetch>>

\* the Todo page is mounted and its list has loaded
InitAdds ==
    /\ page = "todo" /\ pendingFetch = 0
    /\ todos = << >> /\ notes = << >> /\ rowIds = [todos |-> 1, notes |-> 1]
    /\ view = EmptyView /\ handled = NoHandled /\ form = NoForm
    /\ adds = NoAdds /\ speech = NoSpeech /\ chat = NoChat
    /\ FnIdle /\ EmbIdle /\ DocsIdle /\ SearchIdle /\ GenIdle /\ QueryIdle
    /\ StoreIdle /\ SessionsIdle /\ UploadIdle /\ DashIdle

addsFrame ==
    <<fnVars, embVars, docVars, searchVars, genVars, queryVars, storeVars,
      sessionVars, uploadVars, dashVars, speech, chat>>

NextAdds ==
    \/ \E text \in TodoTitles : TypeNewTodo(text) /\ UNCHANGED addsFrame
    \/ \E trigger \in {"button", "enter"} :
          AddTodoStarts(trigger) /\ UNCHANGED addsFrame
    \/ \E i \in 1..MaxAdds, remoteOk \in BOOLEAN :
          AddTodoInsertEnds(i, remoteOk) /\ UNCHANGED addsFrame

SpecAdds == InitAdds /\ [][NextAdds]_vars

(***************************************************************************)
(* Properties of the pure functions                                        *)
(***************************************************************************)
\* C3: cosineSimilarity is symmetric: for vectors a and b of equal dimension
\* cosineSimilarity(a, b) and cosineSimilarity(b, a) are the same value, in
\* both services (two zero-magnitude results are both NaN).
C3_CosineSymmetric ==
    (cosOut.svc # "none" /\ Len(cosIn[1]) = Len(cosIn[2]))
        => cosOut.ab = cosOut.ba

\* two different embeddings were compared and the score is a non-zero number
C3_Witness ==
    /\ cosOut.svc = "supabase"
    /\ Len(cosIn[1]) = EmbeddingDim /\ Len(cosIn[2]) = EmbeddingDim
    /\ cosIn[1] # cosIn[2]
    /\ ~cosOut.ab.nan /\ cosOut.ab.sgn # 0

\* C4: self-similarity is maximal: for vectors a and b that generateEmbedding
\* produces for some text, cosineSimilarity(a, a) >= cosineSimilarity(a, b).
C4_SelfSimilarityMaximal ==
    (cosOut.svc # "none" /\ cosIn[1] \in TextVectors /\ cosIn[2] \in TextVectors)
        => Geq(cosOut.aa, cosOut.ab)

\* C5: generateEmbedding is deterministic: any two calls, in either service,
\* with the same text return the same vector, and so do two calls whose texts
\* have the same hash, since the vector depends on the text through the hash only.
C5_EmbeddingDeterministic ==
    \A i, j \in DOMAIN embLog :
        (embLog[i].text = embLog[j].text \/ embLog[i].hash = embLog[j].hash)
            => embLog[i].embedding = embLog[j].embedding

\* the two services embedded two different texts that share a hash
C5_Witness ==
    \E i, j \in DOMAIN embLog :
        /\ embLog[i].svc = "supabase" /\ embLog[j].svc = "browser"
        /\ embLog[i].text # embLog[j].text
        /\ embLog[i].hash = embLog[j].hash

(***************************************************************************)
(* Properties of searchDocuments                                           *)
(***************************************************************************)
\* the entries of the scored array that the returned array leaves out
LeftOut(scored, results) ==
    {j \in DOMAIN scored : \A i \in DOMAIN results : results[i] # scored[j]}

\* C1: for a corpus of n stored documents whose fetch succeeds,
\* searchDocuments(query, topK) returns exactly min(topK, n) results, no
\* result is followed by one with a strictly greater score, and no document
\* left out has a score strictly greater than a returned one.  (A NaN score
\* is taken as incomparable here, which is the reading kindest to the code.)
C1_TopKByScore ==
    (search.pc = "returned" /\ search.fetchOk) =>
        LET res == search.results
        IN  /\ Len(res) = Min(search.topK, Len(documents))
            /\ \A i, j \in DOMAIN res :
                  i < j => ~Less(res[i].score, res[j].score)
            /\ \A j \in LeftOut(search.scored, res) :
                  \A i \in DOMAIN res :
                      ~Less(res[i].score, search.scored[j].score)

\* C6: every embedding generateEmbedding produces has exactly 384 components:
\* the one of the query and the one of every row stored through
\* storeDocument, so every comparison searchDocuments makes is between
\* vectors of equal dimension.
C6_EmbeddingDimension ==
    /\ \A i \in DOMAIN documents : Len(documents[i].embedding) = EmbeddingDim
    /\ search.pc = "returned" =>
          /\ Len(search.queryEmbedding) = EmbeddingDim
          /\ \A i \in DOMAIN search.fetched :
                Len(search.fetched[i].embedding) = Len(search.queryEmbedding)

\* a search compared the query with two stored documents of other contents
C6_Witness ==
    /\ search.pc = "returned" /\ search.fetchOk
    /\ Len(search.results) >= 2
    /\ \A i \in DOMAIN search.fetched :
          search.fetched[i].content # search.query

C2_ContextAndSources ==
    LET n == Len(pq.sources)
        c(i) == pq.sources[i].content
        blank == <<"\n\n">>
        stored == IF pq.svc = "supabase" THEN Len(documents)
                  ELSE Len(ragDocuments)
    IN  /\ (pq.pc \in {"generate", "saveAssistant", "returned"} /\ n >= 1) =>
              pq.context = (CASE n = 1 -> c(1)
                              [] n = 2 -> c(1) \o blank \o c(2)
                              [] OTHER -> c(1) \o blank \o c(2) \o blank \o c(3))
        /\ (pq.pc = "returned" /\ n >= 1) =>
              /\ pq.returned = pq.sources
              /\ Len(pq.returned) = Min(DefaultTopK, stored)

\* a query over more than five documents returned five sources, the third of
\* them with another content than the first
C2_Witness ==
    /\ pq.pc = "returned" /\ pq.svc = "supabase"
    /\ Len(documents) > DefaultTopK
    /\ Len(pq.returned) = DefaultTopK
    /\ pq.returned[1].content # pq.returned[3].content
    /\ pq.outcome.kind = "text"

\* C8: no remote call is re-issued automatically: within one processQuery
\* each remote request (the save of the user message, the fetch of the
\* documents, the call of the language model, the save of the assistant
\* message) is attempted at most once, whether it succeeds or fails.
C8_NoAutomaticRetry ==
    /\ \A request \in DOMAIN pq.calls : pq.calls[request] <= 1
    /\ Len(chat_messages) <= pq.calls.saveUser + pq.calls.saveAssistant

\* a processQuery returned after its model call failed and its save of the
\* assistant message failed, each attempted once
C8_Witness ==
    /\ pq.pc = "returned" /\ pq.svc = "supabase"
    /\ pq.outcome.kind = "throw"
    /\ pq.calls.llm = 1 /\ pq.calls.saveAssistant = 1
    /\ \A i \in DOMAIN chat_messages : chat_messages[i].role = "user"

(***************************************************************************)
(* Properties of the page views                                            *)
(***************************************************************************)
\* C7: every remote call issued by a page view (fetch, insert, update,
\* delete) that fails leads to a toast being shown to the user, in addition
\* to the console log.
C7_EveryFailureToasts ==
    handled.failed => (handled.toast.variant # "none" /\ handled.logged)

\* C7, amended: every failing insert, update or delete issued by a page view
\* leads to a destructive toast; a failing fetch leads to a console log, and
\* to a toast only when it is the fetch of Notes.
C7_FailedMutationToasts ==
    /\ (handled.failed /\ handled.kind \in {"insert", "update", "delete"}) =>
          handled.toast.variant = "destructive"
    /\ (handled.failed /\ handled.kind = "fetch") =>
          /\ handled.logged
          /\ handled.toast.variant = "destructive" <=> handled.op = "fetchNotes"

\* the delete of a listed todo failed and the error toast is up, with one
\* todo stored
C7_Witness ==
    /\ handled.op = "deleteTodo" /\ handled.failed
    /\ handled.toast = DestructiveToast("Error")
    /\ Len(todos) = 1

\* C10: a row of documents, todos or notes is removed only by the explicit
\* delete for that row's id (deleteDocument, deleteTodo, handleDeleteNote):
\* a step that removes rows of a table is a successful delete on that table,
\* and the one row it removes is the row with the id the delete named; no
\* create, update, toggle or fetch removes a row.
C10_RemovedOnlyByDelete ==
    [][LET gone(rows, rowsAfter) == Ids(rows) \ Ids(rowsAfter)
       IN  /\ gone(documents, documents') # {} =>
                 /\ lastCall'.op = "deleteDocument" /\ lastCall'.ok
                 /\ handled'.op = "handleDeleteDocument"
                 /\ gone(documents, documents') = {lastCall'.id}
           /\ gone(todos, todos') # {} =>
                 /\ handled'.op = "deleteTodo" /\ ~handled'.failed
                 /\ gone(todos, todos') = {handled'.id}
           /\ gone(notes, notes') # {} =>
                 /\ handled'.op = "handleDeleteNote" /\ ~handled'.failed
                 /\ gone(notes, notes') = {handled'.id}]_vars

\* a note was deleted while another note stays stored
C10_Witness ==
    /\ handled.op = "handleDeleteNote" /\ ~handled.failed
    /\ Len(notes) = 1
    /\ notes[1].id # handled.id

(***************************************************************************)
(* Properties of two sessions editing one row                              *)
(***************************************************************************)
\* the values the source computes from a copy of the row and what was typed
\* or clicked, spelled out column by column
ExpectedFrom(w) ==
    IF w.basis.table = "todos"
    THEN w.values.completed = ~w.basis.completed
    ELSE IF w.basis.table = "goals"
    THEN /\ w.values.current_value \in GoalValues
         /\ w.values.status =
              (IF w.values.current_value >= w.basis.target_value
               THEN "completed" ELSE "active")
    ELSE \/ w.values.title = w.basis.title
         \/ w.values.content = w.basis.content

\* C11: concurrent edits of one row from two sessions are not reconciled.
\* Every update the database applied wrote values computed from the copy of
\* the row the issuing session held (a blind write: it is applied whatever the
\* row holds by then), and once updates have been applied the stored row
\* holds, in every column an update writes, the values of the update applied
\* last.
C11_LastWriteWins ==
    /\ \A i \in DOMAIN applied : ExpectedFrom(applied[i])
    /\ applied # << >> =>
          LET last == applied[Len(applied)]
          IN  \A c \in DOMAIN last.values : shared[c] = last.values[c]

\* two sessions updated the row, the second from a copy that was stale when
\* it wrote: the row holds the second update's values
C11_Witness ==
    /\ Len(applied) >= 2
    /\ \E i \in 2..Len(applied) :
          /\ i = Len(applied)
          /\ applied[i].session # applied[i - 1].session
          /\ UpdateRow(applied[i].basis, applied[i - 1].values) # applied[i].basis
          /\ \A c \in DOMAIN applied[i].values : shared[c] = applied[i].values[c]

(***************************************************************************)
(* Properties of the steps of processQuery                                 *)
(***************************************************************************)
\* the rows of chat_messages with the given role
RowsOfRole(role) == SelectSeq(chat_messages, LAMBDA row : row.role = role)

\* where a SupabaseRAGService.processQuery call stands against its saves
StepOrder ==
    pq.svc = "supabase" =>
        /\ pq.calls.search > 0 \/ pq.pc = "search" => pq.calls.saveUser = 1
        /\ pq.calls.saveAssistant > 0 =>
              /\ pq.calls.search = 1
              /\ Len(pq.sources) > 0 => pq.calls.llm = 1
              /\ Len(pq.sources) = 0 => pq.response = NoDocumentsResponse
        /\ pq.pc = "returned" => pq.calls.saveAssistant = 1
        /\ pq.pc # "rejected"

\* what a save of SupabaseRAGService.processQuery leads to, whether its
\* insert succeeds or fails
SaveNeverAborts ==
    /\ (pq.pc = "idle" /\ pq'.svc = "supabase") =>
          /\ pq'.pc = "search"
          /\ chat_messages' \in
                {chat_messages,
                 Append(chat_messages, ChatRow(pq'.query, "user", << >>))}
    /\ (pq.svc = "supabase" /\ pq.pc = "saveAssistant") =>
          /\ pq'.pc = "returned"
          /\ pq'.response = pq.response /\ pq'.returned = pq.sources
          /\ chat_messages' \in
                {chat_messages,
                 Append(chat_messages,
                        ChatRow(pq.response, "assistant", pq.sources))}

\* C12: in one SupabaseRAGService.processQuery call the save of the user
\* message is attempted before the search starts, the save of the assistant
\* message is attempted only after the response text is determined (after the
\* search, and after the model call when there are sources), the call returns
\* only after the attempt to save the assistant message has ended, and a
\* failing insert of either message does not abort the call: the response is
\* returned all the same.
C12_SaveOrder == [](StepOrder) /\ [][SaveNeverAborts]_vars

\* a call returned the model's answer with its sources although neither
\* message could be saved
C12_Witness ==
    /\ pq.svc = "supabase" /\ pq.pc = "returned"
    /\ pq.calls = [saveUser |-> 1, search |-> 1, llm |-> 1, saveAssistant |-> 1]
    /\ chat_messages = << >>
    /\ pq.response = <<"answer">> /\ Len(pq.returned) > 0

\* what every processQuery call that found no sources returns
NoResultsReturn ==
    /\ pq.response = NoDocumentsResponse
    /\ pq.returned = << >>
    /\ pq.calls.llm = 0

\* C13 as stated: when searchDocuments yields no results (an empty documents
\* table or a failed fetch) processQuery returns the fixed "I don't have any
\* relevant documents" response with no sources, makes no call to the model,
\* and that response is persisted as an assistant message without sources.
C13_NoResultsPersisted ==
    (pq.pc = "returned" /\ Len(pq.sources) = 0) =>
        /\ NoResultsReturn
        /\ RowsOfRole("assistant") =
              <<ChatRow(NoDocumentsResponse, "assistant", << >>)>>

\* C13, amended: when searchDocuments yields no results processQuery returns
\* the fixed response with no sources and makes no call to the model;
\* SupabaseRAGService.processQuery calls saveChatMessage once for that
\* response, without sources, and the row is in chat_messages unless the
\* insert failed; RAGService.processQuery saves nothing.
C13_NoResultsSaveAttempted ==
    (pq.pc = "returned" /\ Len(pq.sources) = 0) =>
        /\ NoResultsReturn
        /\ pq.svc = "supabase" =>
              /\ pq.calls.saveAssistant = 1
              /\ RowsOfRole("assistant") \in
                    {<< >>, <<ChatRow(NoDocumentsResponse, "assistant", << >>)>>}
        /\ pq.svc = "browser" =>
              /\ pq.calls.saveAssistant = 0
              /\ chat_messages = << >>

\* the documents fetch failed although documents are stored, and the fixed
\* response was returned and saved
C13_Witness ==
    /\ pq.svc = "supabase" /\ pq.pc = "returned"
    /\ documents # << >> /\ pq.sources = << >>
    /\ pq.response = NoDocumentsResponse
    /\ RowsOfRole("assistant") =
          <<ChatRow(NoDocumentsResponse, "assistant", << >>)>>

(***************************************************************************)
(* Properties of BrowserVectorStore                                        *)
(***************************************************************************)
\* the store calls that resolved and whose id no later call stored again
LastingStores ==
    {i \in DOMAIN storeLog :
        /\ storeLog[i].resolved
        /\ \A j \in DOMAIN storeLog : j > i => storeLog[j].id # storeLog[i].id}

\* the documents localStorage holds
StoredDocuments ==
    IF localStorage.present THEN JsonParse(localStorage) ELSE << >>

\* C14: documents stored with BrowserVectorStore.store are persistent: after
\* any sequence of store and search calls and page reloads, every document
\* whose store resolved and whose id was not stored again is held in
\* localStorage, and a search with topK at least the number of documents
\* returns it.
C14_StoredDocumentsPersist ==
    \A i \in LastingStores :
        /\ \E k \in DOMAIN StoredDocuments :
              /\ StoredDocuments[k].id = storeLog[i].id
              /\ StoredDocuments[k].content = storeLog[i].content
        /\ (ragSearch.pc = "returned" /\ ragSearch.topK >= Len(StoredDocuments)) =>
              \E k \in DOMAIN ragSearch.results :
                  /\ ragSearch.results[k].content = storeLog[i].content
                  /\ ragSearch.results[k].metadata = storeLog[i].metadata

\* the ids of an array of documents are all different
DistinctIds(docs) ==
    \A i, j \in DOMAIN docs : docs[i].id = docs[j].id => i = j

\* the document of the array with the given id, without its position
Held(docs, id) ==
    {[id |-> d.id, content |-> d.content, embedding |-> d.embedding,
      metadata |-> d.metadata] : d \in {docs[i] : i \in {k \in DOMAIN docs : docs[k].id = id}}}

\* one store call: afterwards the array holds under the id what the call
\* passed, and under every other id what it held before
StoreReplacesById ==
    storeLog' # storeLog =>
        LET call == storeLog'[Len(storeLog')]
        IN  /\ Held(ragDocuments', call.id) =
                  {[id |-> call.id, content |-> call.content,
                    embedding |-> call.embedding, metadata |-> call.metadata]}
            /\ call.embedding = RagGenerateEmbedding(call.content)
            /\ \A id \in StoreIds \ {call.id} :
                  Held(ragDocuments', id) = Held(ragDocuments, id)
            /\ call.resolved => localStorage' = JsonStringify(ragDocuments')

\* C15: BrowserVectorStore.store replaces by id: no two documents held, in
\* the array or in localStorage, share an id, and each store call leaves
\* under its id the content, embedding and metadata it was given and under
\* every other id what was held before, so that each id holds what the most
\* recent store call for it passed.
C15_StoreReplacesById ==
    /\ [](DistinctIds(ragDocuments) /\ DistinctIds(StoredDocuments))
    /\ [][StoreReplacesById]_vars

\* an id was stored a second time with another content while another
\* document was held: the array holds two documents, the id's with the
\* second content
C15_Witness ==
    /\ Len(storeLog) = 3 /\ Len(ragDocuments) = 2
    /\ storeLog[1].id = storeLog[3].id /\ storeLog[2].id # storeLog[1].id
    /\ storeLog[1].content # storeLog[3].content
    /\ Held(ragDocuments, storeLog[3].id) # {}
    /\ \A d \in Held(ragDocuments, storeLog[3].id) :
          d.content = storeLog[3].content

(***************************************************************************)
(* Properties of handleFileUpload                                          *)
(***************************************************************************)
\* the steps of the loop for one file, in the order of the source
LoopSteps == <<"uploadFile", "readFileContent", "storeDocument">>

\* the positions of the selection whose given step succeeded
FilesDone(step) ==
    {upload.attempts[k].file :
        k \in {n \in DOMAIN upload.attempts :
                  upload.attempts[n].step = step /\ upload.attempts[n].ok}}

UploadToasts == {upload.toasts[k] : k \in DOMAIN upload.toasts}

\* C16: handleFileUpload takes the selected files one at a time in selection
\* order (upload, read, insert for the first file, then for the second, ...)
\* and stops at the first step that fails: no later step is attempted, the
\* documents stored for earlier files stay in the table, the destructive
\* "Upload failed" toast is shown, and the "Documents uploaded successfully"
\* toast is shown if and only if every file of the selection was uploaded and
\* stored (an empty selection returns at once without a toast).
C16_StopsAtFirstFailure ==
    /\ \A k \in DOMAIN upload.attempts :
          /\ upload.attempts[k].step = LoopSteps[((k - 1) % 3) + 1]
          /\ upload.attempts[k].file = ((k - 1) \div 3) + 1
          /\ k < Len(upload.attempts) => upload.attempts[k].ok
    /\ Len(documents) = Cardinality(FilesDone("storeDocument"))
    /\ \A j \in FilesDone("storeDocument") :
          /\ documents[j].title = upload.files[j].name
          /\ documents[j].content = upload.files[j].content
    /\ (\E k \in DOMAIN upload.attempts : ~upload.attempts[k].ok) =>
          /\ upload.pc = "done"
          /\ upload.toasts = <<DestructiveToast("Upload failed")>>
    /\ upload.pc = "done" =>
          (Toast("Documents uploaded successfully") \in UploadToasts
             <=> /\ upload.files # << >>
                 /\ FilesDone("uploadFile") = DOMAIN upload.files
                 /\ FilesDone("storeDocument") = DOMAIN upload.files)
    /\ upload.pc \notin {"done", "loadDocuments"} => upload.toasts = << >>

\* the first file of two was stored and a step of the second failed: the
\* handler has ended, the first document is in the table, and the only toast
\* is the failure
C16_Witness ==
    /\ upload.pc = "done" /\ Len(upload.files) = 2
    /\ FilesDone("storeDocument") = {1}
    /\ \E k \in DOMAIN upload.attempts :
          upload.attempts[k].file = 2 /\ ~upload.attempts[k].ok
    /\ Len(documents) = 1
    /\ upload.toasts = <<DestructiveToast("Upload failed")>>

\* C17: for each uploaded file the documents row is inserted only after the
\* storage upload of that file has succeeded and returned a path, the row's
\* file_path is that path, and the file name is appended to uploadedFiles
\* only after both the upload and the insert have succeeded.
C17_InsertAfterUpload ==
    /\ \A k \in DOMAIN upload.attempts :
          upload.attempts[k].step = "storeDocument" =>
              /\ k > 2
              /\ upload.attempts[k - 2].step = "uploadFile"
              /\ upload.attempts[k - 2].file = upload.attempts[k].file
              /\ upload.attempts[k - 2].ok
              /\ upload.attempts[k - 2].path # "null"
              /\ upload.attempts[k].path = upload.attempts[k - 2].path
              /\ \E n \in DOMAIN storage :
                    /\ storage[n].path = upload.attempts[k].path
                    /\ storage[n].name = upload.files[upload.attempts[k].file].name
              /\ upload.attempts[k].ok =>
                    documents[upload.attempts[k].file].file_path =
                        upload.attempts[k - 2].path
    /\ Len(upload.uploadedFiles) = Cardinality(FilesDone("storeDocument"))
    /\ \A j \in DOMAIN upload.uploadedFiles :
          /\ j \in FilesDone("uploadFile") /\ j \in FilesDone("storeDocument")
          /\ upload.uploadedFiles[j] = upload.files[j].name

\* two files were uploaded and stored: each row carries the path of its own
\* storage object
C17_Witness ==
    /\ upload.pc = "done" /\ Len(upload.uploadedFiles) = 2
    /\ Len(documents) = 2 /\ Len(storage) = 2
    /\ documents[1].file_path = storage[1].path
    /\ documents[2].file_path = storage[2].path
    /\ storage[1].path # storage[2].path

(***************************************************************************)
(* Properties of the forms of the Upload and Todo pages                    *)
(***************************************************************************)
\* what the typed fields may hold that is empty after trimming
BlankTexts == {EmptyText, <<" ">>}

BlankTitles == {"", " "}

\* a save is under way exactly while isSavingText is set, and only for a
\* title and a text that are not blank
SaveUnderWay ==
    /\ form.savePc # "idle" =>
          /\ form.isSavingText
          /\ form.saving.title \notin BlankTitles
          /\ form.saving.content \notin BlankTexts
    /\ form.savePc = "idle" => ~form.isSavingText

\* the steps of handleSaveTextDocument
SaveSteps ==
    /\ (form.savePc = "idle" /\ form'.savePc = "idle"
          /\ handled'.op = "handleSaveTextDocument") =>
          /\ form.textInput \in BlankTexts \/ form.documentTitle \in BlankTitles
          /\ UNCHANGED <<documents, lastCall, form>>
    /\ (form.savePc = "idle" /\ form'.savePc # "idle") =>
          /\ form.textInput \notin BlankTexts
          /\ form.documentTitle \notin BlankTitles
          /\ UNCHANGED <<documents, lastCall>>
    /\ (form.savePc = "storeDocument" /\ form'.savePc # "storeDocument") =>
          /\ lastCall'.op = "storeDocument"
          /\ IF lastCall'.ok
             THEN /\ form'.textInput = EmptyText /\ form'.documentTitle = ""
                  /\ form'.savePc = "loadDocuments"
                  /\ Len(documents') = Len(documents) + 1
                  /\ documents'[Len(documents')].title = form.saving.title
                  /\ documents'[Len(documents')].content = form.saving.content
             ELSE /\ form'.textInput = form.textInput
                  /\ form'.documentTitle = form.documentTitle
                  /\ form'.savePc = "idle" /\ ~form'.isSavingText
                  /\ documents' = documents
    /\ (form.savePc = "loadDocuments" /\ form'.savePc # "loadDocuments") =>
          /\ form'.savePc = "idle" /\ ~form'.isSavingText
          /\ handled'.op = "loadDocuments"
          /\ ~handled'.failed => Ids(view'.documents) = Ids(documents)

\* C18: handleSaveTextDocument issues no remote call unless the text and the
\* title are both non-empty after trimming; when the store succeeds the two
\* fields are cleared and the document list is loaded again, when it fails
\* the typed title and text stay as they are; isSavingText is false once the
\* handler has ended, whichever way it ends.
C18_SaveTextDocument == [](SaveUnderWay) /\ [][SaveSteps]_vars

\* a save succeeded and its reload has ended while the fetch of the mount is
\* still out: the list shows the document, the fields are empty and
\* isSavingText is false
C18_Witness ==
    /\ page = "upload" /\ pendingFetch = 1
    /\ form.savePc = "idle" /\ ~form.isSavingText
    /\ form.saving.title = "doc" /\ form.saving.content = TextCat
    /\ form.textInput = EmptyText /\ form.documentTitle = ""
    /\ Len(view.documents) = 1 /\ Len(documents) = 1

TodoHandlers == {"addTodo", "toggleTodo", "deleteTodo"}

\* one step of the Todo page against its list
TodoListStep ==
    /\ (handled'.op \in TodoHandlers /\ handled'.failed) =>
          /\ view'.todos = view.todos
          /\ form'.newTodo = form.newTodo
          /\ todos' = todos
          /\ handled'.toast = DestructiveToast("Error")
    /\ view'.todos # view.todos =>
          /\ ~handled'.failed
          /\ \/ handled'.op = "loadTodos"
             \/ /\ handled'.op \in TodoHandlers
                /\ handled'.kind \in {"insert", "update", "delete"}
                /\ todos' # todos

\* C19: in the Todo page the local list changes only after the remote call
\* has succeeded: when the insert of addTodo, the update of toggleTodo or the
\* delete of deleteTodo fails, the list (and for addTodo the typed text)
\* stays as it is and a destructive "Error" toast is shown.
C19_ListChangesAfterSuccess == [][TodoListStep]_vars

\* the insert of addTodo failed with a todo listed and a text typed: both
\* are as before and the error toast is up
C19_Witness ==
    /\ handled.op = "addTodo" /\ handled.failed
    /\ form.newTodo = "task"
    /\ Len(view.todos) = 1 /\ Len(todos) = 1
    /\ handled.toast = DestructiveToast("Error")

(***************************************************************************)
(* Properties of the Dashboard                                             *)
(***************************************************************************)
\* the creation dates of every row of todos and events
AllDates ==
    {todos[i].created_at : i \in DOMAIN todos}
        \cup {events[i].created_at : i \in DOMAIN events}

RecentDates ==
    {dashboard.recentActivities[i].date : i \in DOMAIN dashboard.recentActivities}

\* C20: the recent activity list of the dashboard is the last 5 items across
\* the tables: once both fetches have succeeded it holds at most 5 entries,
\* in the order of creation date descending, and they are the 5 most
\* recently created rows among all todos and events (all of the rows when
\* there are fewer than 5).
C20_RecentActivities ==
    (dashboard.loaded /\ dashboard.todosOk /\ dashboard.eventsOk) =>
        LET recent == dashboard.recentActivities
        IN  /\ Len(recent) <= RecentLimit
            /\ \A i, j \in DOMAIN recent : i < j => recent[i].date >= recent[j].date
            /\ Len(recent) = Min(RecentLimit, Cardinality(AllDates))
            /\ \A d \in AllDates \ RecentDates :
                  \A r \in RecentDates : d < r

(***************************************************************************)
(* Properties of the speech input                                          *)
(***************************************************************************)
\* a recognition session has ended after its final result, and nothing was
\* typed into the text area since it started
SessionDone ==
    /\ speech.pc = "idle" /\ speech.sessions > 0
    /\ speech.gotFinal /\ ~speech.typed

\* C21: in the Upload page speech is added to the existing text: after one
\* recognition session (onstart, any number of onresult events carrying
\* interim and final results, then onend) the content field equals the text
\* present before the session followed by a space and the session's final
\* transcript, with no transcript fragment repeated.
C21_SpeechAddedOnce ==
    SessionDone =>
        form.textInput = speech.before \o <<" ">> \o speech.final

(***************************************************************************)
(* Properties of the Chat page                                             *)
(***************************************************************************)
\* the messages handleSend call n has appended, of one type
Appended(n, type) ==
    SelectSeq(chat.messages,
              LAMBDA msg : msg.id.local /\ msg.id.n = n /\ msg.type = type)

InFlight(n) == \E i \in DOMAIN chat.calls : chat.calls[i].n = n

AssistantContents == {ModelResponse, NoDocumentsResponse, SendErrorResponse}

\* every call past the guard has appended its user message, and one assistant
\* message once it has ended and none before
SendsBalanced ==
    /\ \A n \in 1..chat.sends :
          /\ Len(Appended(n, "user")) = 1
          /\ Len(Appended(n, "assistant")) = IF InFlight(n) THEN 0 ELSE 1
          /\ \A i \in DOMAIN Appended(n, "assistant") :
                Appended(n, "assistant")[i].content \in AssistantContents
    /\ Len(LocalMessages(chat.messages)) =
          (2 * chat.sends) - Len(chat.calls)

\* the step of handleSend past its guard appends the user message
SendAppendsUser ==
    (handled'.op = "handleSend" /\ handled'.kind = "processQuery") =>
        /\ chat'.messages =
              Append(chat.messages,
                     LocalMessage(handled'.id, "user", chat.input))
        /\ chat'.isLoading

\* C22: every handleSend that passes its guard appends the user message and
\* is eventually followed by exactly one appended assistant message (the
\* model response or the apology text), after which isLoading is false
\* again, provided each remote call eventually returns or fails.
C22_SendAnswered ==
    /\ [](SendsBalanced)
    /\ [][SendAppendsUser]_vars
    /\ \A n \in 1..MaxSends :
          InFlight(n) ~>
              (/\ ~InFlight(n) /\ chat.sends >= n
               /\ Len(Appended(n, "assistant")) = 1
               /\ ~chat.isLoading)

\* every call the bound allows was made and has ended, one of them by the
\* catch block
C22_Witness ==
    /\ chat.sends = MaxSends /\ chat.calls = << >> /\ ~chat.isLoading
    /\ Len(Appended(MaxSends, "assistant")) = 1
    /\ \E n \in 1..MaxSends :
          Appended(n, "assistant")[1].content = SendErrorResponse

\* at most one call is in flight, isLoading is set exactly while one is, no
\* call is made while the history is loading and the load has replaced no
\* message of handleSend
OneInFlight ==
    /\ Len(chat.calls) <= 1
    /\ chat.isLoading <=> chat.calls # << >>
    /\ chat.isLoadingHistory => (chat.sends = 0 /\ chat.calls = << >>)
    /\ ~chat.lost

\* handleSend called while isLoading or with a blank input changes nothing
SendGuard ==
    (/\ handled'.op = "handleSend" /\ handled'.kind # "resumed"
     /\ chat.isLoading \/ TrimText(chat.input) = EmptyText) =>
        (chat' = chat /\ chat_messages' = chat_messages)

\* C23: in the Chat page at most one processQuery is in flight at any time:
\* handleSend does nothing while isLoading is true or while the trimmed input
\* is empty, also when it is triggered by the Enter key rather than the send
\* button, and no send can occur while the chat history is still loading, so
\* the history load never overwrites a locally appended message.
C23_OneQueryInFlight == [](OneInFlight) /\ [][SendGuard]_vars

\* a second call is in flight after the first has ended, under a loaded
\* history that is still in the array
C23_Witness ==
    /\ Len(chat.calls) = 1 /\ chat.sends = 2
    /\ Len(chat.messages) > Len(LocalMessages(chat.messages))
    /\ handled.op = "handleSend"

(***************************************************************************)
(* Properties of addTodo across its await                                  *)
(***************************************************************************)
\* C24: in the Todo page at most one addTodo insert is in flight at any
\* time, so one typed title creates at most one todos row, whether addTodo
\* is triggered by the Add button or by pressing Enter in the input while a
\* previous add has not yet completed.
C24_OneInsertPerTitle ==
    /\ Len(adds.calls) <= 1
    /\ \A i, j \in DOMAIN adds.made : adds.made[i] = adds.made[j] => i = j

====
